---- MODULE Spec2Model ----
(***************************************************************************)
(* Model of the API testing agent of Phoenix.ai                            *)
(* (src/src/agent/api_testing/api_testing_agent.py): the Gherkin text      *)
(* codec, the directive extraction and validation done by                  *)
(* execute_gherkin_scenario, the executor execute_api_test, the            *)
(* coroutine parse_and_execute_gherkin and the agent's result log.         *)
(*                                                                         *)
(* Text.  A Python str is a sequence of tokens.  A token is an atom of     *)
(* text: a keyword or phrase the code searches for ("Given",               *)
(* "endpoint is", "GET request"), a word, a number, or one of the          *)
(* characters the code treats specially (" ", "\n", "\"").  Searching,     *)
(* splitting, stripping and replacing are done on these sequences the way  *)
(* the str methods do them on characters.                                  *)
(*                                                                         *)
(* Python values.  TestResult.success is "True", "False" or "None": the    *)
(* code can produce None in the place of the bool.  TestResult.errors is   *)
(* None exactly when the list built is empty (lines 384, 679), so it is    *)
(* modelled by the list itself.  A dict is the sequence of its             *)
(* <<key, value>> pairs in insertion order.                                *)
(* timestamp and execution_time are clock readings no claim depends on     *)
(* and are left out of the records.                                        *)
(***************************************************************************)
EXTENDS Integers, Sequences, FiniteSets, TLC

VARIABLES test_results, appended_by, pc, locals, calls, ret, stimulus, codec,
          parser, output, fields

vars ==
    <<test_results, appended_by, pc, locals, calls, ret, stimulus, codec,
      parser, output, fields>>

(***************************************************************************)
(* Optional[T]: None is the empty sequence, a value v is <<v>>.            *)
(***************************************************************************)
None == <<>>

Some(v) == <<v>>

(***************************************************************************)
(* str helpers                                                             *)
(***************************************************************************)
Whitespace == {" ", "\n", "\t"}

RECURSIVE LStrip(_)
LStrip(s) ==
    IF s # <<>> /\ Head(s) \in Whitespace THEN LStrip(Tail(s)) ELSE s

RECURSIVE RStrip(_)
RStrip(s) ==
    IF s # <<>> /\ s[Len(s)] \in Whitespace
    THEN RStrip(SubSeq(s, 1, Len(s) - 1))
    ELSE s

\* str.strip()
Strip(s) == RStrip(LStrip(s))

\* str.split(sep) for a one-character separator: always at least one piece
RECURSIVE Split(_, _)
Split(s, sep) ==
    IF \A i \in 1..Len(s) : s[i] # sep
    THEN <<s>>
    ELSE LET i == CHOOSE k \in 1..Len(s) :
                      s[k] = sep /\ \A j \in 1..(k - 1) : s[j] # sep
         IN  <<SubSeq(s, 1, i - 1)>> \o Split(SubSeq(s, i + 1, Len(s)), sep)

\* A faulty variant of StartsWith that finds the keyword anywhere in the line
found_anywhere(s, kw) == \E i \in 1..Len(s) : s[i] = kw

\* str.startswith(kw)
StartsWith(s, kw) == s # <<>> /\ s[1] = kw

\* kw in s
Contains(s, kw) == \E i \in 1..Len(s) : s[i] = kw

\* str.replace(kw, ''): EVERY occurrence of kw is removed
Remove(s, kw) == SelectSeq(s, LAMBDA t : t # kw)

RECURSIVE Concat(_)
Concat(ss) == IF ss = <<>> THEN <<>> ELSE Head(ss) \o Concat(Tail(ss))

(***************************************************************************)
(* GherkinScenario and the text codec                                      *)
(***************************************************************************)
GherkinScenario(feature, scenario, given, when, then) ==
    [feature |-> feature, scenario |-> scenario,
     given |-> given, when |-> when, then |-> then]

\* A faulty variant of ParserLocals: the given section is active from the start
ParserLocals_given_active ==
    [feature |-> <<>>, scenario |-> <<>>, given |-> <<>>, when |-> <<>>,
     then |-> <<>>, current_section |-> "given"]

\* The locals of _parse_gherkin_text before its loop (lines 136-142)
ParserLocals ==
    [feature |-> <<>>, scenario |-> <<>>, given |-> <<>>, when |-> <<>>,
     then |-> <<>>, current_section |-> "None"]

\* One iteration of the loop of _parse_gherkin_text (lines 144-166)
parse_line(st, raw) ==
    LET line == Strip(raw) IN
    IF StartsWith(line, "Feature:")
    THEN [st EXCEPT !.feature = Strip(Remove(line, "Feature:"))]
    ELSE IF StartsWith(line, "Scenario:")
    THEN [st EXCEPT !.scenario = Strip(Remove(line, "Scenario:"))]
    ELSE IF StartsWith(line, "Given")
    THEN [st EXCEPT !.current_section = "given",
                    !.given = Append(@, Strip(Remove(line, "Given")))]
    ELSE IF StartsWith(line, "When")
    THEN [st EXCEPT !.current_section = "when",
                    !.when = Append(@, Strip(Remove(line, "When")))]
    ELSE IF StartsWith(line, "Then")
    THEN [st EXCEPT !.current_section = "then",
                    !.then = Append(@, Strip(Remove(line, "Then")))]
    ELSE IF StartsWith(line, "And") /\ st.current_section # "None"
    THEN LET step == Strip(Remove(line, "And")) IN
         CASE st.current_section = "given" -> [st EXCEPT !.given = Append(@, step)]
           [] st.current_section = "when"  -> [st EXCEPT !.when = Append(@, step)]
           [] st.current_section = "then"  -> [st EXCEPT !.then = Append(@, step)]
    ELSE st

RECURSIVE parse_lines(_, _)
parse_lines(st, lines) ==
    IF lines = <<>> THEN st
    ELSE parse_lines(parse_line(st, Head(lines)), Tail(lines))

\* GherkinGenerator._parse_gherkin_text
parse_gherkin_text(text) ==
    LET st == parse_lines(ParserLocals, Split(Strip(text), "\n"))
    IN  GherkinScenario(st.feature, st.scenario, st.given, st.when, st.then)

\* The step lines "  <Keyword> <step>\n" of one block
step_lines(kw, steps) ==
    Concat([i \in 1..Len(steps) |-> <<" ", " ", kw, " ">> \o steps[i] \o <<"\n">>])

\* The formatting of generate_gherkin_from_prompt (lines 335-346)
gherkin_text_of(scenario) ==
    <<"Feature:", " ">> \o scenario.feature \o <<"\n", "\n">>
    \o <<"Scenario:", " ">> \o scenario.scenario \o <<"\n">>
    \o step_lines("Given", scenario.given)
    \o step_lines("When", scenario.when)
    \o step_lines("Then", scenario.then)

(***************************************************************************)
(* JSON values (what response.json() returns) and json.dumps               *)
(***************************************************************************)
JStr(s) == [t |-> "str", s |-> s]

JNum(n) == [t |-> "num", n |-> n]

JBool(b) == [t |-> "bool", b |-> b]

JList(items) == [t |-> "list", items |-> items]

\* d: the sequence of <<key, value>> pairs of the mapping
JDict(d) == [t |-> "dict", d |-> d]

\* ', '.join(parts)
RECURSIVE JoinComma(_)
JoinComma(parts) ==
    IF parts = <<>> THEN <<>>
    ELSE IF Len(parts) = 1 THEN parts[1]
    ELSE parts[1] \o <<",", " ">> \o JoinComma(Tail(parts))

\* json.dumps(v) with the default separators
RECURSIVE Dumps(_)
Dumps(v) ==
    CASE v.t = "str"  -> <<"\"">> \o v.s \o <<"\"">>
      [] v.t = "num"  -> <<ToString(v.n)>>
      [] v.t = "bool" -> <<IF v.b THEN "true" ELSE "false">>
      [] v.t = "list" ->
            <<"[">> \o JoinComma([i \in 1..Len(v.items) |-> Dumps(v.items[i])])
            \o <<"]">>
      [] v.t = "dict" ->
            <<"{">> \o JoinComma([i \in 1..Len(v.d) |->
                        <<"\"">> \o v.d[i][1] \o <<"\"", ":", " ">>
                        \o Dumps(v.d[i][2])])
            \o <<"}">>

\* a in b, for strings
IsInfix(a, b) ==
    \E i \in 0..(Len(b) - Len(a)) : SubSeq(b, i + 1, i + Len(a)) = a

\* d[k] = v on a dict
DictSet(d, k, v) ==
    IF \E i \in 1..Len(d) : d[i][1] = k
    THEN [i \in 1..Len(d) |-> IF d[i][1] = k THEN <<k, v>> ELSE d[i]]
    ELSE Append(d, <<k, v>>)

(***************************************************************************)
(* The HTTP exchange: what requests.request(...) can do                    *)
(*   response   a response arrived: status code and body                   *)
(*   transport  a requests.RequestException (DNS, refused, timeout)        *)
(*   exception  any other exception raised inside the call                 *)
(* A body either decodes as JSON (json |-> <<value>>) or does not          *)
(* (json |-> None); text is response.text.                                 *)
(***************************************************************************)
JsonBody(v) == [json |-> Some(v), text |-> Dumps(v)]

TextBody(raw) == [json |-> None, text |-> raw]

HttpResponse(status_code, body) ==
    [kind |-> "response", status_code |-> status_code, body |-> body,
     headers |-> << <<<<"Content-Type">>, <<"application/json">>>> >>]

TransportError(message) == [kind |-> "transport", message |-> message]

OtherException(message) == [kind |-> "exception", message |-> message]

\* response.json() with the fallback of lines 630-633 and 226-229
response_data_of(body) ==
    IF body.json # None THEN body.json[1]
    ELSE JDict(<< <<<<"text">>, JStr(body.text)>> >>)

(***************************************************************************)
(* TestResult and the record execute_gherkin_scenario returns on the       *)
(* response path                                                           *)
(***************************************************************************)
TestResult(success, scenario_name, api_response, ui_result, extracted_values, errors) ==
    [cls |-> "TestResult", success |-> success,
     scenario_name |-> scenario_name, api_response |-> api_response,
     ui_validation_result |-> ui_result,
     extracted_values |-> extracted_values, errors |-> errors]

FormattedTestResult(status, api_endpoint, status_code, extracted_values, validation_errors, message, response_data) ==
    [cls |-> "FormattedTestResult", status |-> status,
     api_endpoint |-> api_endpoint, status_code |-> status_code,
     extracted_values |-> extracted_values,
     validation_errors |-> validation_errors, message |-> message,
     response_data |-> response_data]

PyBool(b) == IF b THEN "True" ELSE "False"

(***************************************************************************)
(* execute_gherkin_scenario: directive extraction (lines 571-607)          *)
(***************************************************************************)
\* str.lower() of one token: the phrases the code looks for in line.lower()
LowerTok(t) ==
    CASE t = "URL is" -> "url is"
      [] t = "Endpoint is" -> "endpoint is"
      [] t = "Status code should be" -> "status code should be"
      [] t = "should be a JSON array" -> "should be a json array"
      [] t = "Should contain" -> "should contain"
      [] t = "GET request" -> "get request"
      [] t = "POST request" -> "post request"
      [] OTHER -> t

\* str.lower()
Lower(s) == [i \in 1..Len(s) |-> LowerTok(s[i])]

\* The positions where the pattern "([^"]+)" matches
QuotedStarts(s) ==
    {i \in 1..Len(s) :
        /\ s[i] = "\""
        /\ i + 1 <= Len(s)
        /\ s[i + 1] # "\""
        /\ \E j \in (i + 2)..Len(s) : s[j] = "\""}

Min(S) == CHOOSE x \in S : \A y \in S : x <= y

\* re.search(r'"([^"]+)"', s): group 1 of the leftmost match, or None
FirstQuoted(s) ==
    IF QuotedStarts(s) = {} THEN None
    ELSE LET i == Min(QuotedStarts(s))
             j == Min({k \in (i + 2)..Len(s) : s[k] = "\""})
         IN  Some(SubSeq(s, i + 1, j - 1))

\* The decimal numbers that occur in the texts, and the int of each
IntTokens == {"0", "1", "5", "200", "404"}

IntOf(t) ==
    CASE t = "0" -> 0 [] t = "1" -> 1 [] t = "5" -> 5
      [] t = "200" -> 200 [] t = "404" -> 404

\* re.search(r'\d+', s): the leftmost run of digits, or None
FirstNumber(s) ==
    LET at == {i \in 1..Len(s) : s[i] \in IntTokens}
    IN  IF at = {} THEN None ELSE Some(IntOf(s[Min(at)]))

\* A faulty variant of method_of: a method once set is kept
method_of_first_match(line, method) ==
    IF method # "GET" THEN method
    ELSE IF Contains(line, "POST request") THEN "POST"
    ELSE IF Contains(line, "PUT request") THEN "PUT"
    ELSE IF Contains(line, "DELETE request") THEN "DELETE"
    ELSE method

\* lines 593-601
method_of(line, method) ==
    IF Contains(line, "GET request") THEN "GET"
    ELSE IF Contains(line, "POST request") THEN "POST"
    ELSE IF Contains(line, "PUT request") THEN "PUT"
    ELSE IF Contains(line, "DELETE request") THEN "DELETE"
    ELSE method

\* A faulty variant of api_url_of that takes the quoted value of any line
api_url_of_any_line(line, api_url) ==
    IF FirstQuoted(line) # None THEN FirstQuoted(line) ELSE api_url

\* lines 586-591
api_url_of(line, api_url) ==
    IF (Contains(Lower(line), "endpoint is") \/ Contains(Lower(line), "url is"))
       /\ FirstQuoted(line) # None
    THEN FirstQuoted(line)
    ELSE api_url

\* lines 603-607
expected_status_of(line, expected_status) ==
    IF Contains(Lower(line), "status code should be") /\ FirstNumber(line) # None
    THEN FirstNumber(line)[1]
    ELSE expected_status

\* lines 582-584
scenario_name_of(line, scenario_name) ==
    IF StartsWith(line, "Scenario:")
    THEN Strip(Remove(line, "Scenario:"))
    ELSE scenario_name

\* One iteration of the loop of lines 579-607
directive_line(st, raw) ==
    LET line == Strip(raw) IN
    [scenario_name   |-> scenario_name_of(line, st.scenario_name),
     api_url         |-> api_url_of(line, st.api_url),
     method          |-> method_of(line, st.method),
     expected_status |-> expected_status_of(line, st.expected_status)]

RECURSIVE directive_lines(_, _)
directive_lines(st, lines) ==
    IF lines = <<>> THEN st
    ELSE directive_lines(directive_line(st, Head(lines)), Tail(lines))

\* lines 571-607: the values of the locals after the loop
extract_directives(gherkin_text) ==
    directive_lines([scenario_name |-> <<"API", " ", "Test">>,
                     api_url |-> None, method |-> "GET",
                     expected_status |-> 200],
                    Split(Strip(gherkin_text), "\n"))

(***************************************************************************)
(* execute_gherkin_scenario: validation (lines 635-666)                    *)
(***************************************************************************)
\* f"Expected status {expected_status}, got {response.status_code}"
StatusError(expected_status, status_code) ==
    <<"Expected status ", ToString(expected_status), ", got ", ToString(status_code)>>

ArrayError == <<"Response is not a JSON array">>

\* f"Response does not contain '{search_value}'"
ContentError(search_value) ==
    <<"Response does not contain '">> \o search_value \o <<"'">>

\* f"contains_{search_value.replace(' ', '_')}"
contains_key(search_value) ==
    <<"contains_">> \o
    [i \in 1..Len(search_value) |->
        IF search_value[i] = " " THEN "_" ELSE search_value[i]]

\* re.search(r'should contain.*?"([^"]+)"', line, re.IGNORECASE): group 1 of
\* the match, or None.  A quoted string after the leftmost "should contain"
\* is one after every later occurrence too, so the leftmost decides.
content_match(line) ==
    LET at == {i \in 1..Len(line) : Lower(line)[i] = "should contain"}
    IN  IF at = {} THEN None
        ELSE FirstQuoted(SubSeq(line, Min(at) + 1, Len(line)))

\* lines 642-645: the error list before the loop over the lines
status_check(expected_status, status_code) ==
    IF status_code # expected_status
    THEN <<StatusError(expected_status, status_code)>>
    ELSE <<>>

\* A faulty variant of array_check that skips the check once an error is recorded
array_check_short_circuit(line, response_data, validation_errors) ==
    IF validation_errors # <<>> THEN validation_errors
    ELSE IF (Contains(Lower(line), "should be a json array")
               \/ Contains(Lower(line), "should be an array"))
            /\ response_data.t # "list"
    THEN Append(validation_errors, ArrayError)
    ELSE validation_errors

\* A faulty variant of array_check that lets a mapping pass for an array
array_check_any_container(line, response_data, validation_errors) ==
    IF (Contains(Lower(line), "should be a json array")
          \/ Contains(Lower(line), "should be an array"))
       /\ response_data.t \notin {"list", "dict"}
    THEN Append(validation_errors, ArrayError)
    ELSE validation_errors

\* lines 651-653
array_check(line, response_data, validation_errors) ==
    IF (Contains(Lower(line), "should be a json array")
          \/ Contains(Lower(line), "should be an array"))
       /\ response_data.t # "list"
    THEN Append(validation_errors, ArrayError)
    ELSE validation_errors

\* A faulty variant of content_check that sets the key for every asserted
\* literal, found or not
content_check_key_always(line, response_data, acc) ==
    LET m == content_match(line)
        asserted == Contains(Lower(line), "should contain") /\ m # None
        found == asserted /\ IsInfix(m[1], Dumps(response_data))
    IN  [validation_errors |->
            IF asserted /\ ~found
            THEN Append(acc.validation_errors, ContentError(m[1]))
            ELSE acc.validation_errors,
         extracted_values |->
            IF asserted
            THEN DictSet(acc.extracted_values, contains_key(m[1]), JBool(TRUE))
            ELSE acc.extracted_values]

\* lines 655-664, on the pair (validation_errors, extracted_values)
content_check(line, response_data, acc) ==
    LET m == content_match(line)
        asserted == Contains(Lower(line), "should contain") /\ m # None
        found == asserted /\ IsInfix(m[1], Dumps(response_data))
    IN  [validation_errors |->
            IF asserted /\ ~found
            THEN Append(acc.validation_errors, ContentError(m[1]))
            ELSE acc.validation_errors,
         extracted_values |->
            IF found
            THEN DictSet(acc.extracted_values, contains_key(m[1]), JBool(TRUE))
            ELSE acc.extracted_values]

\* One iteration of the loop of lines 648-664
validate_line(acc, line, response_data) ==
    content_check(line, response_data,
        [acc EXCEPT !.validation_errors = array_check(line, response_data, @)])

RECURSIVE validate_lines(_, _, _)
validate_lines(acc, lines, response_data) ==
    IF lines = <<>> THEN acc
    ELSE validate_lines(validate_line(acc, Head(lines), response_data),
                        Tail(lines), response_data)

\* lines 639-664: validation_errors and extracted_values after the loop
validate(lines, response_data, expected_status, status_code) ==
    validate_lines([validation_errors |-> status_check(expected_status, status_code),
                    extracted_values |-> <<>>],
                   lines, response_data)

\* A faulty variant of success_of that looks at the status alone
success_of_status_only(validation_errors, status_ok) == status_ok

\* line 666
success_of(validation_errors, status_ok) ==
    Len(validation_errors) = 0 /\ status_ok

\* line 717
message_of(success, validation_errors) ==
    IF success THEN <<"Test passed successfully">>
    ELSE <<"Test failed: ">> \o JoinComma(validation_errors)

(***************************************************************************)
(* execute_gherkin_scenario as a whole (lines 554-739).  It has no await:  *)
(* on the event loop the call runs from start to return without            *)
(* interruption.  The value is                                             *)
(*   returned    the object handed to the caller                           *)
(*   result      the TestResult the execution built                        *)
(*   appended    the TestResults appended to self.test_results             *)
(*   calls       how often requests.request was invoked                    *)
(*   directives  the locals api_url, method, expected_status, scenario_name*)
(***************************************************************************)
\* line 609: not api_url
no_api_url(api_url) == api_url = None \/ api_url = Some(<<>>)

\* A faulty variant of request_attempts that calls again when the first call fails
request_attempts_retry(http) == IF http.kind = "response" THEN 1 ELSE 2

\* lines 620-625 and 215: one call, outside any loop, whatever its outcome
request_attempts(http) == 1

\* lines 609-616
missing_endpoint_result(scenario_name) ==
    TestResult("False", scenario_name, None, None, None,
               << <<"Could not extract API URL from Gherkin scenario">> >>)

\* A faulty variant of transport_failure_result that drops the message
transport_failure_result_silent(scenario_name, message) ==
    TestResult("False", scenario_name, None, None, None, <<>>)

\* lines 723-730
transport_failure_result(scenario_name, message) ==
    TestResult("False", scenario_name, None, None, None,
               << <<"API request failed: ">> \o message >>)

\* lines 732-739
execution_error_result(message) ==
    TestResult("False", <<"Error">>, None, None, None,
               << <<"Execution error: ">> \o message >>)

\* lines 627-721: the response arrived
response_path(gherkin_text, d, http) ==
    LET lines == Split(Strip(gherkin_text), "\n")
        response_data == response_data_of(http.body)
        status_ok == http.status_code = d.expected_status
        v == validate(lines, response_data, d.expected_status, http.status_code)
        success == success_of(v.validation_errors, status_ok)
        result == TestResult(PyBool(success), d.scenario_name,
                      Some([status_code |-> http.status_code, data |-> response_data]),
                      None, Some(v.extracted_values), v.validation_errors)
    IN  [returned |-> FormattedTestResult(
                          IF success THEN "passed" ELSE "failed",
                          d.api_url[1], http.status_code, v.extracted_values,
                          v.validation_errors,
                          message_of(success, v.validation_errors), response_data),
         result |-> result,
         appended |-> <<result>>,
         calls |-> request_attempts(http),
         directives |-> d]

execute_gherkin_scenario(gherkin_text, http) ==
    LET d == extract_directives(gherkin_text) IN
    IF no_api_url(d.api_url)
    THEN [returned |-> missing_endpoint_result(d.scenario_name),
          result |-> missing_endpoint_result(d.scenario_name),
          appended |-> <<>>, calls |-> 0, directives |-> d]
    ELSE CASE http.kind = "response" -> response_path(gherkin_text, d, http)
           [] http.kind = "transport" ->
                [returned |-> transport_failure_result(d.scenario_name, http.message),
                 result |-> transport_failure_result(d.scenario_name, http.message),
                 appended |-> <<>>, calls |-> request_attempts(http),
                 directives |-> d]
           [] http.kind = "exception" ->
                [returned |-> execution_error_result(http.message),
                 result |-> execution_error_result(http.message),
                 appended |-> <<>>, calls |-> request_attempts(http),
                 directives |-> d]

(***************************************************************************)
(* APIValidator._get_nested_value and _extract_values (lines 255-283)      *)
(* A lookup gives [ok |-> TRUE, value |-> v] or, where Python raises,      *)
(* [ok |-> FALSE, error |-> str(e)].                                       *)
(***************************************************************************)
Ok(v) == [ok |-> TRUE, value |-> v]

Raise(message) == [ok |-> FALSE, error |-> message]

\* int(s)
PyInt(s) ==
    IF Len(Strip(s)) = 1 /\ Strip(s)[1] \in IntTokens
    THEN Ok(IntOf(Strip(s)[1]))
    ELSE Raise(<<"invalid literal for int() with base 10: '">> \o s \o <<"'">>)

\* current[key] for a str key
subscript_key(current, key) ==
    IF current.t = "dict"
    THEN IF \E i \in 1..Len(current.d) : current.d[i][1] = key
         THEN Ok(current.d[CHOOSE i \in 1..Len(current.d) : current.d[i][1] = key][2])
         ELSE Raise(<<"'">> \o key \o <<"'">>)
    ELSE IF current.t = "list"
    THEN Raise(<<"list indices must be integers or slices, not str">>)
    ELSE IF current.t = "str"
    THEN Raise(<<"string indices must be integers, not 'str'">>)
    ELSE Raise(<<"object is not subscriptable">>)

\* current[index] for an int index
subscript_index(current, index) ==
    IF current.t = "list"
    THEN IF index >= 0 /\ index < Len(current.items)
         THEN Ok(current.items[index + 1])
         ELSE IF index < 0 /\ -index <= Len(current.items)
         THEN Ok(current.items[Len(current.items) + index + 1])
         ELSE Raise(<<"list index out of range">>)
    ELSE IF current.t = "str"
    THEN IF index >= 0 /\ index < Len(current.s)
         THEN Ok(JStr(<<current.s[index + 1]>>))
         ELSE IF index < 0 /\ -index <= Len(current.s)
         THEN Ok(JStr(<<current.s[Len(current.s) + index + 1]>>))
         ELSE Raise(<<"string index out of range">>)
    ELSE IF current.t = "dict"
    THEN Raise(<<ToString(index)>>)
    ELSE Raise(<<"object is not subscriptable">>)

\* One iteration of the loop of lines 274-281
nested_step(current, key) ==
    IF Contains(key, "[") /\ Contains(key, "]")
    THEN LET key_name == Split(key, "[")[1]
             index == PyInt(Split(Split(key, "[")[2], "]")[1])
             named == subscript_key(current, key_name)
         IN  IF ~index.ok THEN index
             ELSE IF ~named.ok THEN named
             ELSE subscript_index(named.value, index.value)
    ELSE subscript_key(current, key)

RECURSIVE nested_steps(_, _)
nested_steps(current, keys) ==
    IF keys = <<>> THEN Ok(current)
    ELSE LET r == nested_step(current, Head(keys))
         IN  IF r.ok THEN nested_steps(r.value, Tail(keys)) ELSE r

\* APIValidator._get_nested_value
get_nested_value(data, path) == nested_steps(data, Split(path, "."))

\* APIValidator._extract_values; extractors is a dict key -> path
RECURSIVE extract_values(_, _)
extract_values(response_data, extractors) ==
    IF extractors = <<>> THEN <<>>
    ELSE LET n == Len(extractors)
             key == extractors[n][1]
             r == get_nested_value(response_data, extractors[n][2])
         IN  DictSet(extract_values(response_data, SubSeq(extractors, 1, n - 1)),
                     key,
                     IF r.ok THEN r.value
                     ELSE JStr(<<"Error extracting: ">> \o r.error))

(***************************************************************************)
(* APIValidator.execute_api_test (lines 189-253)                           *)
(* llm is what the await of _validate_schema brings back: the reply text   *)
(* of the model, or an exception.  The value is the returned tuple         *)
(* (api_success, api_response, extracted_values).                          *)
(***************************************************************************)
APITestConfig(expected_status, expected_response_schema, extract_values_) ==
    [base_url |-> <<"https://example.test">>, endpoint |-> <<"/users">>,
     method |-> "GET", expected_status |-> expected_status,
     expected_response_schema |-> expected_response_schema,
     extract_values |-> extract_values_]

\* Truth value of an Optional dict or list: None and the empty one are false
Truthy(opt) == opt # None /\ opt[1] # <<>>

LlmReply(content) == [kind |-> "reply", content |-> content]

LlmFailure(message) == [kind |-> "exception", message |-> message]

\* str.upper() of one token
UpperTok(t) == IF t = "valid" THEN "VALID" ELSE t

\* line 306: 'VALID' in response.content.upper()
schema_valid(content) ==
    Contains([i \in 1..Len(content) |-> UpperTok(content[i])], "VALID")

\* lines 252-253
api_test_exception(message) ==
    [api_success |-> FALSE, api_response |-> [error |-> message],
     extracted_values |-> None]

\* lines 217-223
api_test_status_mismatch(config, http) ==
    [api_success |-> FALSE,
     api_response |-> [status_code |-> http.status_code,
                       body |-> JStr(http.body.text),
                       error |-> StatusError(config.expected_status, http.status_code)],
     extracted_values |-> None]

\* lines 231-234
api_test_extracted(config, http) ==
    IF Truthy(config.extract_values)
    THEN Some(extract_values(response_data_of(http.body), config.extract_values[1]))
    ELSE None

\* Whether the coroutine reaches the await of line 238
awaits_schema(config, http) ==
    /\ http.kind = "response"
    /\ http.status_code = config.expected_status
    /\ Truthy(config.expected_response_schema)

execute_api_test(config, http, llm) ==
    IF http.kind # "response"
    THEN api_test_exception(http.message)
    ELSE IF http.status_code # config.expected_status
    THEN api_test_status_mismatch(config, http)
    ELSE IF awaits_schema(config, http) /\ llm.kind = "exception"
    THEN api_test_exception(llm.message)
    ELSE IF awaits_schema(config, http) /\ ~schema_valid(llm.content)
    THEN [api_success |-> FALSE,
          api_response |-> [status_code |-> http.status_code,
                            body |-> response_data_of(http.body),
                            error |-> <<"Response schema validation failed">>],
          extracted_values |-> api_test_extracted(config, http)]
    ELSE [api_success |-> TRUE,
          api_response |-> [status_code |-> http.status_code,
                            body |-> response_data_of(http.body),
                            headers |-> http.headers],
          extracted_values |-> api_test_extracted(config, http)]

(***************************************************************************)
(* APITestingAgent.parse_and_execute_gherkin (lines 348-389)               *)
(* ui_result is what _execute_ui_validation returned: a dict, a record     *)
(* here, in which the key 'success' or 'errors' may be absent (the reply   *)
(* of the model is passed through as decoded, line 490).                   *)
(***************************************************************************)
UIValidationConfig(url, validation_steps) ==
    [url |-> url, validation_steps |-> validation_steps]

\* line 370: the UI validation runs
runs_ui_validation(api, ui_validation) ==
    api.api_success /\ ui_validation # None /\ Truthy(api.extracted_values)

\* api_response.get('error', 'Unknown error')
api_error_of(api_response) ==
    IF "error" \in DOMAIN api_response THEN api_response.error
    ELSE <<"Unknown error">>

\* lines 363-367
api_errors(api) ==
    IF ~api.api_success
    THEN << <<"API test failed: ">> \o api_error_of(api.api_response) >>
    ELSE <<>>

\* ui_result.get('errors', [])
ui_errors_of(ui_result) ==
    IF "errors" \in DOMAIN ui_result THEN ui_result.errors ELSE <<>>

\* line 378: api_success and (not ui_validation or (ui_result and ui_result['success']))
pae_success(api_success, ui_validation, ui_result) ==
    IF ~api_success THEN "False"
    ELSE IF ui_validation = None THEN "True"
    ELSE IF ui_result = None THEN "None"
    ELSE PyBool(ui_result[1].success)

\* lines 363-389 when no UI validation runs (ui_result stays None)
pae_result_without_ui(scenario, api, ui_validation) ==
    TestResult(pae_success(api.api_success, ui_validation, None),
               scenario.scenario, Some(api.api_response), None,
               api.extracted_values, api_errors(api))

\* lines 371-389 after the UI validation returned a dict with 'success'
pae_result_with_ui(scenario, api, ui_validation, ui_result) ==
    TestResult(pae_success(api.api_success, ui_validation, Some(ui_result)),
               scenario.scenario, Some(api.api_response), Some(ui_result),
               api.extracted_values,
               api_errors(api) \o
                 (IF ~ui_result.success THEN ui_errors_of(ui_result) ELSE <<>>))

\* What a coroutine hands back when an exception leaves it
Raised(exception) == [cls |-> "raised", exception |-> exception]

(***************************************************************************)
(* Inputs                                                                  *)
(***************************************************************************)
\* The longest scenario text, in lines
MaxLines == 3

\* The number of coroutines running against the one agent
NTasks == 2

Tasks == 1..NTasks

LineScenario == <<"Scenario:", " ", "Get", " ", "users">>

LineEndpoint ==
    <<" ", " ", "Given", " ", "the API ", "endpoint is", " ",
      "\"", "https://example.test/users", "\"">>

LineStatus404 == <<"Then", " ", "the response ", "status code should be", " ", "404">>

LineArray == <<"Then", " ", "the response ", "should be a JSON array">>

LineContainsLeanne ==
    <<"Then", " ", "the response ", "should contain", " ",
      "\"", "Leanne", " ", "Graham", "\"">>

LineContainsBob ==
    <<"And", " ", "the response ", "should contain", " ", "\"", "Bob", "\"">>

\* The lines of the scenario texts: besides the lines above a second URL, an
\* endpoint without quotes, the two methods, and a status line in which a
\* number precedes the phrase
LineSet ==
    {LineScenario, LineEndpoint,
     <<"And", " ", "the ", "URL is", " ", "\"", "https://example.test/posts", "\"">>,
     <<"Given", " ", "the API ", "endpoint is", " ", "https://example.test/users">>,
     <<"When", " ", "I send a ", "POST request">>,
     <<"When", " ", "I send a ", "GET request">>,
     LineStatus404,
     <<"Then", " ", "for user ", "1", " the ", "Status code should be", " ", "200">>,
     LineArray, LineContainsLeanne, LineContainsBob}

\* '\n'.join(lines)
RECURSIVE JoinLines(_)
JoinLines(lines) ==
    IF lines = <<>> THEN <<>>
    ELSE IF Len(lines) = 1 THEN lines[1]
    ELSE lines[1] \o <<"\n">> \o JoinLines(Tail(lines))

TextsOver(lineSet, maxLines) ==
    UNION {{JoinLines(ls) : ls \in [1..n -> lineSet]} : n \in 1..maxLines}

LeanneGraham == JStr(<<"Leanne", " ", "Graham">>)

UsersBody == JsonBody(JList(<<JDict(<< <<<<"name">>, LeanneGraham>> >>)>>))

UserBody ==
    JsonBody(JDict(<< <<<<"users">>, JList(<<JDict(<< <<<<"name">>, LeanneGraham>> >>)>>)>> >>))

NotFoundBody == TextBody(<<"Not", " ", "Found">>)

HttpOutcomes ==
    {HttpResponse(st, b) : st \in {200, 404}, b \in {UsersBody, UserBody, NotFoundBody}}
    \cup {TransportError(<<"Connection refused">>), OtherException(<<"unexpected">>)}

NamePath == <<"users", "[", "0", "]", ".", "name">>

MissingPath == <<"users", "[", "5", "]", ".", "name">>

ApiConfigs ==
    {APITestConfig(200, None, None),
     APITestConfig(200, None, Some(<< <<<<"name">>, NamePath>> >>)),
     APITestConfig(200, Some(<< <<<<"type">>, <<"object">>>> >>),
                   Some(<< <<<<"name">>, NamePath>>, <<<<"other">>, MissingPath>> >>))}

UiConfigs ==
    {None,
     Some(UIValidationConfig(<<"https://example.test/app">>, << <<"check ", "{name}">> >>))}

\* What the model replies to _validate_schema
SchemaReplies ==
    {LlmReply(<<"VALID">>), LlmReply(<<"IN", "VALID">>), LlmReply(<<"no match">>),
     LlmFailure(<<"model unavailable">>)}

\* What _execute_ui_validation returns: the decoded reply of the model
\* (lines 488-496), the fallback of lines 498-502 or that of lines 441-444
UiResults ==
    {[success |-> TRUE, errors |-> <<>>],
     [success |-> FALSE, errors |-> << <<"name is not shown">> >>],
     [success |-> FALSE, errors |-> <<>>],
     [success |-> FALSE, details |-> <<"mismatch">>],
     [details |-> <<"done">>],
     [success |-> FALSE, errors |-> << <<"UI validation failed: ", "no browser">> >>]}

\* The inputs of the executions that run side by side on one agent
AgentTexts ==
    {JoinLines(<<LineScenario>>),
     JoinLines(<<LineScenario, LineEndpoint, LineContainsBob>>),
     JoinLines(<<LineEndpoint, LineArray, LineContainsLeanne>>)}

AgentHttpOutcomes ==
    {HttpResponse(200, UsersBody), HttpResponse(404, NotFoundBody),
     TransportError(<<"Connection refused">>)}

\* One execution, as the inputs of a call
ScenarioCall(gherkin_text, http) ==
    [op |-> "execute_gherkin_scenario", gherkin_text |-> gherkin_text, http |-> http]

ApiTestCall(gherkin_text, api_config, ui_validation, http) ==
    [op |-> "parse_and_execute_gherkin", gherkin_text |-> gherkin_text,
     api_config |-> api_config, ui_validation |-> ui_validation, http |-> http]

Stimuli ==
    {ScenarioCall(t, h) : t \in TextsOver(LineSet, MaxLines), h \in HttpOutcomes}
    \cup {ApiTestCall(t, c, u, h) :
            t \in AgentTexts, c \in ApiConfigs, u \in UiConfigs, h \in HttpOutcomes}

AgentStimuli ==
    {ScenarioCall(t, h) : t \in AgentTexts, h \in AgentHttpOutcomes}
    \cup {ApiTestCall(t, c, u, h) :
            t \in {JoinLines(<<LineScenario>>)}, c \in ApiConfigs, u \in UiConfigs,
            h \in AgentHttpOutcomes}

(***************************************************************************)
(* The agent and the coroutines that run on the event loop                 *)
(*   test_results  APITestingAgent.test_results, the log                   *)
(*   appended_by   for each entry of the log, the task that appended it    *)
(*   pc            where each task is: idle, suspended in the await of     *)
(*                 _validate_schema ("schema") or of                       *)
(*                 _execute_ui_validation ("ui"), inside requests.request  *)
(*                 ("http"), or returned ("done")                          *)
(*   locals        the locals of the task's call                           *)
(*   calls         how often the task's execution invoked requests.request *)
(*   ret           what the task's call returned or raised                 *)
(*   stimulus      the call under test, where one call is looked at alone  *)
(*   codec         the codec round, where the codec is looked at alone     *)
(*   parser        the locals of _parse_gherkin_text, where its loop is    *)
(*                 looked at line by line                                  *)
(*   output        what the last read operation of the agent returned      *)
(*   fields        a call of validate_user_fields, looked at alone         *)
(* Between two awaits a coroutine runs without interruption, so each       *)
(* action below is one such stretch.                                       *)
(***************************************************************************)
NoStimulus == [op |-> "none"]

NoLocals == [op |-> "none"]

NoReturn == [cls |-> "none"]

EmptyScenario == GherkinScenario(<<>>, <<>>, <<>>, <<>>, <<>>)

NoCodec ==
    [pc |-> "off", scenario |-> EmptyScenario, text |-> <<>>,
     decoded |-> EmptyScenario, reencoded |-> <<>>]

NoParser ==
    [pc |-> "off", text |-> <<>>, lines |-> <<>>, i |-> 0, st |-> ParserLocals,
     scenario |-> EmptyScenario]

NoOutput == [op |-> "none"]

NoFields == [pc |-> "off"]

Init ==
    /\ test_results = <<>>
    /\ appended_by = <<>>
    /\ pc = [p \in Tasks |-> "idle"]
    /\ locals = [p \in Tasks |-> NoLocals]
    /\ calls = [p \in Tasks |-> 0]
    /\ ret = [p \in Tasks |-> NoReturn]
    /\ stimulus = NoStimulus
    /\ codec = NoCodec
    /\ parser = NoParser
    /\ output = NoOutput
    /\ fields = NoFields

\* self.test_results.append(result) and the return, by task p
Finish(p, result, returned, frame) ==
    /\ test_results' = Append(test_results, result)
    /\ appended_by' = Append(appended_by, p)
    /\ ret' = [ret EXCEPT ![p] = returned]
    /\ locals' = [locals EXCEPT ![p] = frame]
    /\ pc' = [pc EXCEPT ![p] = "done"]

\* A return or a raise that appends nothing
Leave(p, returned, frame) ==
    /\ ret' = [ret EXCEPT ![p] = returned]
    /\ locals' = [locals EXCEPT ![p] = frame]
    /\ pc' = [pc EXCEPT ![p] = "done"]
    /\ UNCHANGED <<test_results, appended_by>>

\* execute_gherkin_scenario(gherkin_text) of task p comes to its return, the
\* call having done http
ScenarioReturns(p, gherkin_text, http) ==
    LET r == execute_gherkin_scenario(gherkin_text, http)
        frame == [op |-> "execute_gherkin_scenario",
                  directives |-> r.directives, result |-> r.result]
    IN  /\ calls' = [calls EXCEPT ![p] = @ + r.calls]
        /\ IF r.appended # <<>>
           THEN Finish(p, r.appended[1], r.returned, frame)
           ELSE Leave(p, r.returned, frame)

\* Task p runs execute_gherkin_scenario(gherkin_text), the call doing http
ExecuteGherkinScenarioOn(p, gherkin_text, http) ==
    /\ pc[p] = "idle"
    /\ ScenarioReturns(p, gherkin_text, http)

\* parse_and_execute_gherkin from line 363 on, the API test having returned api
AfterApiTest(p, scenario, api, ui_validation) ==
    IF runs_ui_validation(api, ui_validation)
    THEN /\ pc' = [pc EXCEPT ![p] = "ui"]
         /\ locals' = [locals EXCEPT ![p] =
                [op |-> "parse_and_execute_gherkin", scenario |-> scenario,
                 api |-> api, ui_validation |-> ui_validation]]
         /\ UNCHANGED <<test_results, appended_by, ret>>
    ELSE LET result == pae_result_without_ui(scenario, api, ui_validation)
         IN  Finish(p, result, result,
                    [op |-> "parse_and_execute_gherkin", api |-> api,
                     result |-> result])

\* Task p runs parse_and_execute_gherkin up to its first await, or to the end
ParseAndExecuteGherkinOn(p, gherkin_text, api_config, ui_validation, http) ==
    /\ pc[p] = "idle"
    /\ calls' = [calls EXCEPT ![p] = @ + request_attempts(http)]
    /\ LET scenario == parse_gherkin_text(gherkin_text) IN
       IF awaits_schema(api_config, http)
       THEN /\ pc' = [pc EXCEPT ![p] = "schema"]
            /\ locals' = [locals EXCEPT ![p] =
                   [op |-> "parse_and_execute_gherkin", scenario |-> scenario,
                    api_config |-> api_config, ui_validation |-> ui_validation,
                    http |-> http]]
            /\ UNCHANGED <<test_results, appended_by, ret>>
       ELSE AfterApiTest(p, scenario,
                execute_api_test(api_config, http, LlmReply(<<>>)), ui_validation)

\* The await of _validate_schema (line 238) returns to task p
SchemaReply(p) ==
    /\ pc[p] = "schema"
    /\ \E llm \in SchemaReplies :
          AfterApiTest(p, locals[p].scenario,
              execute_api_test(locals[p].api_config, locals[p].http, llm),
              locals[p].ui_validation)
    /\ UNCHANGED <<calls, stimulus, codec, parser, output, fields>>

\* The await of _execute_ui_validation (line 371) returns to task p
UiReply(p) ==
    /\ pc[p] = "ui"
    /\ \E ui_result \in UiResults :
          IF "success" \in DOMAIN ui_result
          THEN LET result == pae_result_with_ui(locals[p].scenario, locals[p].api,
                                 locals[p].ui_validation, ui_result)
               IN  Finish(p, result, result,
                          [op |-> "parse_and_execute_gherkin",
                           api |-> locals[p].api, result |-> result])
          ELSE Leave(p, Raised("KeyError"),
                     [op |-> "parse_and_execute_gherkin", api |-> locals[p].api])
    /\ UNCHANGED <<calls, stimulus, codec, parser, output, fields>>

\* Task p calls execute_gherkin_scenario
ExecuteGherkinScenario(p) ==
    /\ \E call \in {c \in AgentStimuli : c.op = "execute_gherkin_scenario"} :
          ExecuteGherkinScenarioOn(p, call.gherkin_text, call.http)
    /\ UNCHANGED <<stimulus, codec, parser, output, fields>>

\* Task p calls parse_and_execute_gherkin
ParseAndExecuteGherkin(p) ==
    /\ \E call \in {c \in AgentStimuli : c.op = "parse_and_execute_gherkin"} :
          ParseAndExecuteGherkinOn(p, call.gherkin_text, call.api_config,
                                   call.ui_validation, call.http)
    /\ UNCHANGED <<stimulus, codec, parser, output, fields>>

Next ==
    \E p \in Tasks :
        \/ ExecuteGherkinScenario(p)
        \/ ParseAndExecuteGherkin(p)
        \/ SchemaReply(p)
        \/ UiReply(p)

\* Any number of coroutines against one agent
Spec == Init /\ [][Next]_vars

(***************************************************************************)
(* execute_gherkin_scenario with its HTTP call in flight (lines 619-625).  *)
(* requests.request is a blocking call: while a task is in it (pc "http")  *)
(* the event loop runs nothing else.  It is called with timeout=30, so     *)
(* what it comes to is fixed when it is made: a response, or an exception  *)
(* of the library, among them the timeout.                                 *)
(***************************************************************************)
\* A faulty variant of request_outcomes: without a timeout the call may
\* stay pending
request_outcomes_unbounded(timeout) == AgentHttpOutcomes \cup {[kind |-> "pending"]}

\* What requests.request(..., timeout=timeout) can come to (lines 620-625)
request_outcomes(timeout) == AgentHttpOutcomes

\* Task p calls execute_gherkin_scenario: it returns at line 616 when the
\* text gives no URL, and enters requests.request otherwise
BeginScenario(p) ==
    /\ pc[p] = "idle"
    /\ \A q \in Tasks : pc[q] # "http"
    /\ \E gherkin_text \in AgentTexts, http \in request_outcomes(30) :
          IF no_api_url(extract_directives(gherkin_text).api_url)
          THEN ScenarioReturns(p, gherkin_text, http)
          ELSE /\ pc' = [pc EXCEPT ![p] = "http"]
               /\ locals' = [locals EXCEPT ![p] =
                      [op |-> "execute_gherkin_scenario",
                       gherkin_text |-> gherkin_text, http |-> http]]
               /\ UNCHANGED <<test_results, appended_by, calls, ret>>
    /\ UNCHANGED <<stimulus, codec, parser, output, fields>>

\* requests.request returns or raises, and the call runs on to its return
HttpReturns(p) ==
    /\ pc[p] = "http"
    /\ locals[p].http.kind # "pending"
    /\ ScenarioReturns(p, locals[p].gherkin_text, locals[p].http)
    /\ UNCHANGED <<stimulus, codec, parser, output, fields>>

\* The blocking call of task p comes back and the call returns: of the steps
\* of SpecLive these are the steps HttpReturns(p), and it is enabled exactly
\* when HttpReturns(p) is
HttpCompletes(p) ==
    /\ pc[p] = "http"
    /\ locals[p].http.kind # "pending"
    /\ pc' = [pc EXCEPT ![p] = "done"]

\* The call in flight is the running thread: it is not starved
SpecLive ==
    /\ Init
    /\ [][\E p \in Tasks : BeginScenario(p) \/ HttpReturns(p)]_vars
    /\ \A p \in Tasks : WF_pc(HttpCompletes(p))

(***************************************************************************)
(* The log and the operations that read it (lines 504-552), the agent      *)
(* being called as the batch loop of examples/api_testing_examples.py      *)
(* calls it: one execution after the other (lines 227-238).                *)
(***************************************************************************)
MaxLog == 2

\* A faulty variant of get_test_results: the failed entries are left out
get_test_results_passed_only(results) ==
    LET passed == SelectSeq(results, LAMBDA r : r.success = "True")
        asdict(result) == [k \in DOMAIN result \ {"cls"} |-> result[k]]
    IN  [i \in 1..Len(passed) |-> asdict(passed[i])]

\* get_test_results (lines 504-506); asdict gives a new dict of the fields
get_test_results(results) ==
    LET asdict(result) == [k \in DOMAIN result \ {"cls"} |-> result[k]]
    IN  [i \in 1..Len(results) |-> asdict(results[i])]

\* format(num / den, ".1f") as <<whole, tenth>>, the nearest tenth, a tie
\* going to the even one
format_1f(num, den) ==
    LET twice == (20 * num) \div den
        exact == (20 * num) % den = 0
        down == twice \div 2
        tenths == IF twice % 2 = 0 THEN down
                  ELSE IF exact /\ down % 2 = 0 THEN down
                  ELSE down + 1
    IN  <<tenths \div 10, tenths % 10>>

\* A faulty variant of success_rate: an empty log counts as all passed
success_rate_vacuous(passed_tests, total_tests) ==
    IF total_tests > 0 THEN format_1f(passed_tests * 100, total_tests)
    ELSE format_1f(100, 1)

\* The success rate as the report prints it (line 529)
success_rate(passed_tests, total_tests) ==
    IF total_tests > 0 THEN format_1f(passed_tests * 100, total_tests)
    ELSE format_1f(0, 1)

\* generate_test_report (lines 516-552): the summary and, per entry, the
\* heading of its section
generate_test_report(results) ==
    LET total_tests == Len(results)
        passed_tests == Cardinality({i \in 1..Len(results) : results[i].success = "True"})
        failed_tests == total_tests - passed_tests
    IN  [total_tests |-> total_tests, passed_tests |-> passed_tests,
         failed_tests |-> failed_tests,
         success_rate |-> success_rate(passed_tests, total_tests),
         tests |-> [i \in 1..Len(results) |->
                      [number |-> i, scenario_name |-> results[i].scenario_name,
                       status |-> IF results[i].success = "True"
                                  THEN "PASSED" ELSE "FAILED"]]]

\* The caller, its call having returned or raised, makes the next call;
\* between its calls it reads the log
CallAgain ==
    /\ pc[1] = "done"
    /\ Len(test_results) < MaxLog
    /\ pc' = [pc EXCEPT ![1] = "idle"]
    /\ locals' = [locals EXCEPT ![1] = NoLocals]
    /\ ret' = [ret EXCEPT ![1] = NoReturn]
    /\ calls' = [calls EXCEPT ![1] = 0]
    /\ UNCHANGED <<test_results, appended_by, stimulus, codec, parser, output, fields>>

GetTestResults ==
    /\ pc[1] \in {"idle", "done"}
    /\ output' = [op |-> "get_test_results", value |-> get_test_results(test_results)]
    /\ UNCHANGED <<test_results, appended_by, pc, locals, calls, ret, stimulus, codec, parser, fields>>

\* save_test_results (lines 508-514): json.dump writes True, False and None
\* of a success field as true, false and null
SaveTestResults ==
    /\ pc[1] \in {"idle", "done"}
    /\ LET json_dump(export) ==
               [i \in 1..Len(export) |->
                   [export[i] EXCEPT !.success =
                       CASE @ = "True" -> "true" [] @ = "False" -> "false"
                         [] @ = "None" -> "null"]]
       IN  output' = [op |-> "save_test_results",
                      file |-> json_dump(get_test_results(test_results))]
    /\ UNCHANGED <<test_results, appended_by, pc, locals, calls, ret, stimulus, codec, parser, fields>>

GenerateTestReport ==
    /\ pc[1] \in {"idle", "done"}
    /\ output' = [op |-> "generate_test_report",
                  report |-> generate_test_report(test_results)]
    /\ UNCHANGED <<test_results, appended_by, pc, locals, calls, ret, stimulus, codec, parser, fields>>

SpecLog ==
    /\ Init
    /\ [][\/ ExecuteGherkinScenario(1)
          \/ ParseAndExecuteGherkin(1)
          \/ SchemaReply(1)
          \/ UiReply(1)
          \/ CallAgain
          \/ GetTestResults
          \/ SaveTestResults
          \/ GenerateTestReport]_vars

(***************************************************************************)
(* One call looked at alone: every text, configuration and HTTP outcome    *)
(***************************************************************************)
\* The agent after construction (lines 312-329), about to be given one of
\* the calls in stimuli
InitOn(stimuli) ==
    /\ test_results = <<>>
    /\ appended_by = <<>>
    /\ pc = [p \in Tasks |-> "idle"]
    /\ locals = [p \in Tasks |-> NoLocals]
    /\ calls = [p \in Tasks |-> 0]
    /\ ret = [p \in Tasks |-> NoReturn]
    /\ stimulus \in stimuli
    /\ codec = NoCodec
    /\ parser = NoParser
    /\ output = NoOutput
    /\ fields = NoFields

RunScenarioCall ==
    /\ stimulus.op = "execute_gherkin_scenario"
    /\ ExecuteGherkinScenarioOn(1, stimulus.gherkin_text, stimulus.http)
    /\ UNCHANGED <<stimulus, codec, parser, output, fields>>

RunApiTestCall ==
    /\ stimulus.op = "parse_and_execute_gherkin"
    /\ ParseAndExecuteGherkinOn(1, stimulus.gherkin_text, stimulus.api_config,
                                 stimulus.ui_validation, stimulus.http)
    /\ UNCHANGED <<stimulus, codec, parser, output, fields>>

SpecCall ==
    InitOn(Stimuli) /\ [][RunScenarioCall \/ RunApiTestCall \/ SchemaReply(1) \/ UiReply(1)]_vars

(***************************************************************************)
(* The codec looked at alone: a GherkinScenario as generate_gherkin        *)
(* returns it (the decoded JSON reply, line 126) is formatted by           *)
(* generate_gherkin_from_prompt, parsed back by _parse_gherkin_scenario    *)
(* and formatted again.  Names and steps are single lines without          *)
(* surrounding blanks.                                                     *)
(***************************************************************************)
\* The most steps in one block of a scenario
MaxSteps == 1

StepStrings ==
    {<<"a", " ", "user">>,
     <<"I", " ", "send", " ", "a", " ", "GET request">>,
     <<"the", " ", "Given", " ", "user", " ", "exists">>,
     <<"results", " ", "are", " ", "shown", " ", "Then">>}

\* Two names, and step lists of up to MaxSteps steps
Scenarios ==
    LET NameStrings == {<<"Users">>, <<"List", " ", "users">>}
        StepLists == UNION {[1..n -> StepStrings] : n \in 0..MaxSteps}
    IN  {GherkinScenario(f, n, g, w, t) :
            f \in NameStrings, n \in NameStrings,
            g \in StepLists, w \in StepLists, t \in StepLists}

InitCodec ==
    /\ test_results = <<>>
    /\ appended_by = <<>>
    /\ pc = [p \in Tasks |-> "idle"]
    /\ locals = [p \in Tasks |-> NoLocals]
    /\ calls = [p \in Tasks |-> 0]
    /\ ret = [p \in Tasks |-> NoReturn]
    /\ stimulus = NoStimulus
    /\ codec \in {[NoCodec EXCEPT !.pc = "scenario", !.scenario = sc] : sc \in Scenarios}
    /\ parser = NoParser
    /\ output = NoOutput
    /\ fields = NoFields

AgentUnchanged ==
    UNCHANGED <<test_results, appended_by, pc, locals, calls, ret, stimulus,
                parser, output, fields>>

\* generate_gherkin_from_prompt formats the scenario (lines 335-346)
Encode ==
    /\ codec.pc = "scenario"
    /\ codec' = [codec EXCEPT !.pc = "text", !.text = gherkin_text_of(codec.scenario)]
    /\ AgentUnchanged

\* _parse_gherkin_scenario parses the text (lines 391-393)
Decode ==
    /\ codec.pc = "text"
    /\ codec' = [codec EXCEPT !.pc = "decoded", !.decoded = parse_gherkin_text(codec.text)]
    /\ AgentUnchanged

\* The decoded scenario is formatted again
Reencode ==
    /\ codec.pc = "decoded"
    /\ codec' = [codec EXCEPT !.pc = "reencoded",
                              !.reencoded = gherkin_text_of(codec.decoded)]
    /\ AgentUnchanged

SpecCodec == InitCodec /\ [][Encode \/ Decode \/ Reencode]_vars

(***************************************************************************)
(* _parse_gherkin_text looked at alone and line by line (lines 133-174):   *)
(* any text of a few lines, among them lines that no branch of the loop    *)
(* recognises, blank lines and And lines before any section.               *)
(***************************************************************************)
\* The lines of the texts: one for each branch of the loop, a second And
\* line, an indented one,
\* and lines that start with none of the keywords (a comment that holds a
\* keyword further on, a keyword in lower case, Feature without its colon,
\* a line of blanks)
ParseLineSet ==
    {<<"Feature:", " ", "Users">>,
     LineScenario,
     <<" ", " ", "Given", " ", "a", " ", "user">>,
     <<"When", " ", "I", " ", "send", " ", "a", " ", "GET request">>,
     <<"Then", " ", "results", " ", "are", " ", "shown">>,
     <<"And", " ", "the", " ", "list", " ", "is", " ", "sorted">>,
     <<"And", " ", "it", " ", "is", " ", "complete">>,
     <<"#", " ", "Then", " ", "a", " ", "comment">>,
     <<"given", " ", "a", " ", "user">>,
     <<"Feature", " ", "overview">>,
     <<" ">>}

InitParse ==
    /\ test_results = <<>>
    /\ appended_by = <<>>
    /\ pc = [p \in Tasks |-> "idle"]
    /\ locals = [p \in Tasks |-> NoLocals]
    /\ calls = [p \in Tasks |-> 0]
    /\ ret = [p \in Tasks |-> NoReturn]
    /\ stimulus = NoStimulus
    /\ codec = NoCodec
    /\ parser \in {[NoParser EXCEPT !.pc = "called", !.text = t] : t \in TextsOver(ParseLineSet, MaxLines)}
    /\ output = NoOutput
    /\ fields = NoFields

ParserFrame ==
    UNCHANGED <<test_results, appended_by, pc, locals, calls, ret, stimulus,
                codec, output, fields>>

\* lines 135-142: the text is stripped and split, the locals are set
ParseEnter ==
    /\ parser.pc = "called"
    /\ parser' = [parser EXCEPT !.pc = "loop",
                                !.lines = Split(Strip(parser.text), "\n"),
                                !.i = 0, !.st = ParserLocals]
    /\ ParserFrame

\* lines 144-166: one iteration of the loop
ParseLine ==
    /\ parser.pc = "loop"
    /\ parser.i < Len(parser.lines)
    /\ parser' = [parser EXCEPT !.i = @ + 1,
                                !.st = parse_line(@, parser.lines[parser.i + 1])]
    /\ ParserFrame

\* lines 168-174: the loop is over, the GherkinScenario is returned
ParseReturn ==
    /\ parser.pc = "loop"
    /\ parser.i = Len(parser.lines)
    /\ parser' = [parser EXCEPT !.pc = "returned",
                                !.scenario = GherkinScenario(parser.st.feature,
                                    parser.st.scenario, parser.st.given,
                                    parser.st.when, parser.st.then)]
    /\ ParserFrame

NextParse == ParseEnter \/ ParseLine \/ ParseReturn

SpecParse == InitParse /\ [][NextParse]_vars

(***************************************************************************)
(* The value extraction of execute_api_test looked at alone (lines         *)
(* 231-234, 255-283): one call of parse_and_execute_gherkin for every      *)
(* extraction request over a few paths, against a mapping, a list and a    *)
(* body that is not JSON.                                                  *)
(***************************************************************************)
\* The most keys in one extraction request
MaxKeys == 2

\* users[0].name resolves; the others run into an index out of range, a
\* missing key, a key looked up on a list, a key looked up on a str and an
\* index applied to a str
ExtractPaths ==
    {NamePath,
     MissingPath,
     <<"users", "[", "0", "]", ".", "email">>,
     <<"users", ".", "name">>,
     <<"users", "[", "0", "]", ".", "name", ".", "first">>,
     <<"users", "[", "0", "]", ".", "name", "[", "0", "]">>}

\* The dicts key1 -> path, key2 -> path, ...
ExtractRequests ==
    UNION {{[i \in 1..n |-> <<<<"key", ToString(i)>>, f[i]>>] :
               f \in [1..n -> ExtractPaths]} : n \in 1..MaxKeys}

SpecExtract ==
    /\ InitOn({ApiTestCall(JoinLines(<<LineScenario>>), APITestConfig(200, s, Some(e)), u, h) :
                   s \in {None, Some(<< <<<<"type">>, <<"object">>>> >>)},
                   e \in ExtractRequests,
                   u \in UiConfigs,
                   h \in {HttpResponse(200, UserBody), HttpResponse(200, UsersBody),
                          HttpResponse(200, NotFoundBody), HttpResponse(404, NotFoundBody),
                          TransportError(<<"Connection refused">>)}})
    /\ [][RunApiTestCall \/ SchemaReply(1) \/ UiReply(1)]_vars

(***************************************************************************)
(* The validation of execute_gherkin_scenario looked at alone (lines       *)
(* 626-666): texts with an endpoint and a few assertion lines, against     *)
(* bodies of every top-level kind.                                         *)
(***************************************************************************)
\* Array assertions in both wordings, content assertions (one with the
\* phrase capitalised and a literal that shares its key with
\* "Leanne Graham", one without a quoted literal) and a status assertion
ValidateLines ==
    {LineArray,
     <<"And", " ", "it ", "should be an array">>,
     LineContainsLeanne,
     LineContainsBob,
     <<"And", " ", "the response ", "Should contain", " ",
       "\"", "Leanne", "_", "Graham", "\"">>,
     <<"Then", " ", "the response ", "should contain", " ", "a", " ", "name">>,
     LineStatus404}

\* The endpoint line and up to MaxLines assertion lines, against a list, an
\* empty list, a mapping, a number, a string, and text that is not JSON
ValidateStimuli ==
    {ScenarioCall(t, h) :
        t \in UNION {{JoinLines(<<LineEndpoint>> \o ls) :
                         ls \in [1..n -> ValidateLines]} : n \in 0..MaxLines},
        h \in {HttpResponse(200, b) :
                  b \in {UsersBody, JsonBody(JList(<<>>)), UserBody,
                         JsonBody(JNum(5)), JsonBody(LeanneGraham), NotFoundBody}}
               \cup {HttpResponse(404, NotFoundBody)}}

SpecValidate == InitOn(ValidateStimuli) /\ [][RunScenarioCall]_vars

(***************************************************************************)
(* The method directive of execute_gherkin_scenario looked at alone (lines *)
(* 593-601): texts of an endpoint line, a line for each of the four        *)
(* keywords, a line that holds two of them and one that has the keyword in *)
(* lower case, against a response.                                         *)
(***************************************************************************)
SpecMethod ==
    /\ InitOn({ScenarioCall(t, h) :
                 t \in TextsOver({LineEndpoint,
                                  <<"When", " ", "I send a ", "GET request">>,
                                  <<"When", " ", "I send a ", "POST request">>,
                                  <<"When", " ", "I send a ", "PUT request">>,
                                  <<"And", " ", "I send a ", "DELETE request">>,
                                  <<"And", " ", "a ", "DELETE request",
                                    " after a ", "POST request">>,
                                  <<"When", " ", "I send a ", "get request">>},
                                 MaxLines),
                 h \in {HttpResponse(200, UsersBody), HttpResponse(404, NotFoundBody)}})
    /\ [][RunScenarioCall]_vars

(***************************************************************************)
(* validate_user_fields (tests/test_field_validation.py, lines 5-37),      *)
(* looked at alone.  field_assertions is the sequence of <<key, expected>> *)
(* pairs of the dict, expected being a str.                                *)
(***************************************************************************)
\* The most fields asserted at once
MaxFields == 2

\* values_match(item.get(key), expected_value) (lines 10-24): got is None
\* where the item has no such key
values_match(got, expected_value) ==
    LET is_bool == got # None /\ got[1].t = "bool"
        is_number == got # None /\ got[1].t \in {"num", "bool"}
        str == IF got = None THEN <<"None">>
               ELSE CASE got[1].t = "str" -> got[1].s
                      [] got[1].t = "num" -> <<ToString(got[1].n)>>
                      [] got[1].t = "bool" -> <<IF got[1].b THEN "True" ELSE "False">>
        number == IF is_bool THEN (IF got[1].b THEN 1 ELSE 0) ELSE got[1].n
        digits == Strip(expected_value)
        float == IF Len(digits) = 1 /\ digits[1] \in IntTokens
                 THEN Ok(IntOf(digits[1]))
                 ELSE IF Len(digits) = 3 /\ digits[1] \in IntTokens
                         /\ digits[2] = "." /\ digits[3] = "0"
                 THEN Ok(IntOf(digits[1]))
                 ELSE Raise(<<"could not convert string to float">>)
        lower(t) == IF t \in {"True", "TRUE"} THEN "true"
                    ELSE IF t \in {"False", "FALSE"} THEN "false" ELSE t
    IN  IF str = expected_value THEN TRUE
        ELSE IF is_number /\ float.ok THEN number = float.value
        ELSE IF is_bool
        THEN [i \in 1..Len(str) |-> lower(str[i])]
             = [i \in 1..Len(expected_value) |-> lower(expected_value[i])]
        ELSE FALSE

\* validate_user_fields (lines 5-37)
validate_user_fields(response_data, field_assertions) ==
    LET get(item, key) ==
            IF \E i \in 1..Len(item.d) : item.d[i][1] = key
            THEN Some(item.d[CHOOSE i \in 1..Len(item.d) : item.d[i][1] = key][2])
            ELSE None
        all(item) ==
            \A a \in 1..Len(field_assertions) :
                values_match(get(item, field_assertions[a][1]), field_assertions[a][2])
    IN  IF response_data.t = "dict" THEN all(response_data)
        ELSE IF response_data.t = "list"
        THEN \E n \in 1..Len(response_data.items) :
                 /\ response_data.items[n].t = "dict"
                 /\ all(response_data.items[n])
        ELSE FALSE

\* The responses and the assertions of the calls: the two users of the
\* tests, one of them with a boolean field, as a list, with a string in the
\* place of the first user, and the first user alone; up to MaxFields
\* assertions on different keys
InitFields ==
    LET leanne == JDict(<< <<<<"id">>, JNum(1)>>, <<<<"name">>, LeanneGraham>>,
                           <<<<"username">>, JStr(<<"Bret">>)>>,
                           <<<<"active">>, JBool(TRUE)>> >>)
        ervin == JDict(<< <<<<"id">>, JNum(5)>>,
                          <<<<"name">>, JStr(<<"Ervin", " ", "Howell">>)>>,
                          <<<<"username">>, JStr(<<"Antonette">>)>> >>)
        responses == {JList(<<leanne, ervin>>), JList(<<>>),
                      JList(<<JStr(<<"Bret">>), ervin>>), leanne, JStr(<<"Bret">>)}
        pairs == << <<<<"id">>, <<"1">>>>, <<<<"id">>, <<"5">>>>, <<<<"id">>, <<"404">>>>,
                    <<<<"id">>, <<"1", ".", "0">>>>,
                    <<<<"name">>, LeanneGraham.s>>,
                    <<<<"name">>, <<"Ervin", " ", "Howell">>>>,
                    <<<<"username">>, <<"Bret">>>>, <<<<"username">>, <<"Antonette">>>>,
                    <<<<"active">>, <<"true">>>>, <<<<"nickname">>, <<"None">>>> >>
        chosen == {c \in UNION {[1..n -> 1..Len(pairs)] : n \in 0..MaxFields} :
                     \A i, j \in DOMAIN c :
                         i < j => c[i] < c[j] /\ pairs[c[i]][1] # pairs[c[j]][1]}
    IN  /\ test_results = <<>>
        /\ appended_by = <<>>
        /\ pc = [p \in Tasks |-> "idle"]
        /\ locals = [p \in Tasks |-> NoLocals]
        /\ calls = [p \in Tasks |-> 0]
        /\ ret = [p \in Tasks |-> NoReturn]
        /\ stimulus = NoStimulus
        /\ codec = NoCodec
        /\ parser = NoParser
        /\ output = NoOutput
        /\ fields \in {[pc |-> "called", response_data |-> r,
                         field_assertions |-> [i \in DOMAIN c |-> pairs[c[i]]]] :
                           r \in responses, c \in chosen}

\* The call returns
ValidateUserFields ==
    /\ fields.pc = "called"
    /\ fields' = [pc |-> "returned", response_data |-> fields.response_data,
                  field_assertions |-> fields.field_assertions,
                  result |-> validate_user_fields(fields.response_data,
                                                  fields.field_assertions)]
    /\ UNCHANGED <<test_results, appended_by, pc, locals, calls, ret, stimulus,
                   codec, parser, output>>

SpecFields == InitFields /\ [][ValidateUserFields]_vars

(***************************************************************************)
(* The request that execute_api_test prepares (lines 192-212), looked at   *)
(* alone.  A config here has the headers, query_params, body and auth of   *)
(* APITestConfig (lines 32-44) as well.  kwargs['headers'] is              *)
(* config.headers itself when that dict is non-empty (config.headers or    *)
(* {}, line 198), a new dict otherwise; the assignment of line 210 writes  *)
(* into whichever it is.  The caller keeps the config object and runs it   *)
(* again.                                                                  *)
(***************************************************************************)
\* The most runs of one config
MaxRuns == 2

\* What lines 192-212 pass to requests.request, and the caller's config after them
prepare_request(config) ==
    LET has(key) == \E i \in 1..Len(config.auth[1]) : config.auth[1][i][1] = key
        get(key) == config.auth[1][CHOOSE i \in 1..Len(config.auth[1]) :
                                      config.auth[1][i][1] = key][2]
        shared == Truthy(config.headers)
        headers == IF shared THEN config.headers[1] ELSE <<>>
        bearer == Truthy(config.auth) /\ has(<<"bearer">>)
        basic == Truthy(config.auth) /\ ~has(<<"bearer">>) /\ has(<<"basic">>)
        sent_headers ==
            IF bearer
            THEN DictSet(headers, <<"Authorization">>, <<"Bearer ">> \o get(<<"bearer">>))
            ELSE headers
    IN  [kwargs |-> [method |-> config.method,
                     url |-> config.base_url \o config.endpoint,
                     headers |-> sent_headers,
                     params |-> IF Truthy(config.query_params)
                                THEN config.query_params ELSE None,
                     json |-> IF Truthy(config.body) THEN config.body ELSE None,
                     auth |-> IF basic
                              THEN Some(<<get(<<"basic">>).username,
                                          get(<<"basic">>).password>>)
                              ELSE None,
                     timeout |-> 30],
         config |-> IF shared THEN [config EXCEPT !.headers = Some(sent_headers)]
                    ELSE config]

\* The caller runs execute_api_test on its config object, once more
ExecuteApiTest ==
    /\ stimulus.op = "execute_api_test"
    /\ calls[1] < MaxRuns
    /\ LET config == IF calls[1] = 0 THEN stimulus.config ELSE locals[1].config
           sent == IF calls[1] = 0 THEN <<>> ELSE locals[1].sent
           r == prepare_request(config)
       IN  /\ locals' = [locals EXCEPT ![1] =
                  [op |-> "execute_api_test", config |-> r.config,
                   sent |-> Append(sent, r.kwargs)]]
           /\ ret' = [ret EXCEPT ![1] =
                  [cls |-> "tuple",
                   api |-> execute_api_test(config, stimulus.http, LlmReply(<<>>))]]
    /\ calls' = [calls EXCEPT ![1] = @ + 1]
    /\ pc' = [pc EXCEPT ![1] = "done"]
    /\ UNCHANGED <<test_results, appended_by, stimulus, codec, parser, output, fields>>

SpecConfig ==
    /\ InitOn({[op |-> "execute_api_test",
                config |-> APITestConfig(200, None, None)
                           @@ [headers |-> h, query_params |-> q, body |-> None,
                               auth |-> a],
                http |-> HttpResponse(st, UsersBody)] :
                 h \in {None, Some(<<>>),
                        Some(<< <<<<"Accept">>, <<"application/json">>>> >>),
                        Some(<< <<<<"Authorization">>, <<"Bearer ", "old">>>>,
                                <<<<"Accept">>, <<"application/json">>>> >>)},
                 q \in {None, Some(<< <<<<"page">>, <<"2">>>> >>)},
                 a \in {None, Some(<<>>),
                        Some(<< <<<<"bearer">>, <<"tok">>>> >>),
                        Some(<< <<<<"basic">>,
                                  [username |-> <<"u">>, password |-> <<"p">>]>> >>),
                        Some(<< <<<<"basic">>,
                                  [username |-> <<"u">>, password |-> <<"p">>]>>,
                                <<<<"bearer">>, <<"tok">>>> >>)},
                 st \in {200, 404}})
    /\ [][ExecuteApiTest]_vars

(***************************************************************************)
(* execute_test_handler of the API testing tab (api_testing_agent_tab.py,  *)
(* lines 213-247): the status line it shows for what                       *)
(* execute_gherkin_scenario returned.  The first attribute it reads is     *)
(* result.status (line 219); an object without it raises AttributeError,   *)
(* which the except of line 240 turns into the execution error line.  The  *)
(* marks before the texts and the execution time are left out.             *)
(***************************************************************************)
execute_test_handler(result) ==
    IF "status" \notin DOMAIN result
    THEN <<"Execution error: ", "'", result.cls, "' object has no attribute '", "status", "'">>
    ELSE IF result.status = "passed" THEN <<"Test PASSED in ">>
    ELSE IF result.status = "failed" THEN <<"Test FAILED: ">> \o result.message
    ELSE <<"Test SKIPPED: ">> \o result.message

(***************************************************************************)
(* Claims                                                                  *)
(***************************************************************************)

\* The tasks whose call has returned a result (not raised)
Returned == {p \in Tasks : pc[p] = "done" /\ ret[p].cls # "raised"}

\* The entries of the log that task p appended
EntriesOf(p) == {i \in 1..Len(test_results) : appended_by[i] = p}

\* C1: whichever way an execution ended (pass, validation failure, missing
\* endpoint, transport failure), the log holds exactly one TestResult for it.
C1_OneEntryPerExecution ==
    \A p \in Returned : Cardinality(EntriesOf(p)) = 1

\* The lines of a scenario text
LinesOf(gherkin_text) == Split(Strip(gherkin_text), "\n")

\* A line that gives an endpoint URL: an endpoint/url directive with a quoted value
YieldsUrl(line) ==
    /\ Contains(Lower(line), "endpoint is") \/ Contains(Lower(line), "url is")
    /\ FirstQuoted(line) # None

NoEndpointLine(gherkin_text) ==
    \A i \in 1..Len(LinesOf(gherkin_text)) : ~YieldsUrl(LinesOf(gherkin_text)[i])

\* The call looked at is execute_gherkin_scenario and it has returned
ScenarioCallDone == stimulus.op = "execute_gherkin_scenario" /\ pc[1] = "done"

\* C2: for a scenario text in which no line yields an endpoint URL,
\* execute_gherkin_scenario makes no HTTP call and returns a failed result
\* whose error says that the API URL could not be extracted.
C2_MissingEndpointFails ==
    (ScenarioCallDone /\ NoEndpointLine(stimulus.gherkin_text))
    => /\ calls[1] = 0
       /\ ret[1].cls = "TestResult"
       /\ ret[1].success = "False"
       /\ ret[1].errors = << <<"Could not extract API URL from Gherkin scenario">> >>

\* A text with an endpoint directive that has no quoted value, and no other
\* endpoint line, has been executed
C2_Witness ==
    /\ ScenarioCallDone
    /\ NoEndpointLine(stimulus.gherkin_text)
    /\ \E i \in 1..Len(LinesOf(stimulus.gherkin_text)) :
          Contains(Lower(LinesOf(stimulus.gherkin_text)[i]), "endpoint is")
    /\ calls[1] = 0

\* C3: when all N executions have returned, the log has exactly N entries,
\* one per execution, each equal to the TestResult of its execution.
C3_ConcurrentEntries ==
    (Returned = Tasks)
    => /\ Len(test_results) = NTasks
       /\ \A p \in Tasks :
             /\ Cardinality(EntriesOf(p)) = 1
             /\ \A i \in EntriesOf(p) : test_results[i] = locals[p].result

\* C4: an execution makes at most one HTTP call: execute_gherkin_scenario
\* exactly one when a URL was derived and none otherwise, whatever the call
\* did; execute_api_test exactly one.
C4_AtMostOneCall ==
    /\ \A p \in Tasks : calls[p] <= 1
    /\ ScenarioCallDone
         => calls[1] = (IF locals[1].directives.api_url # None THEN 1 ELSE 0)
    /\ (stimulus.op = "parse_and_execute_gherkin" /\ pc[1] # "idle") => calls[1] = 1

\* An execution whose call failed at transport level, or whose response
\* had an unexpected status, has returned after one call
C4_Witness ==
    /\ ScenarioCallDone
    /\ locals[1].directives.api_url # None
    /\ stimulus.http.kind = "transport"
    /\ calls[1] = 1

\* The call looked at has returned and its HTTP call failed at transport level
TransportFailed ==
    /\ pc[1] = "done"
    /\ calls[1] > 0
    /\ stimulus.http.kind = "transport"

\* C5: when the HTTP call fails at transport level the execution does not
\* raise: it returns a failed result without status code whose error list
\* carries the message of the failure.
C5_TransportFailureReturned ==
    TransportFailed
    => /\ ret[1].cls = "TestResult"
       /\ ret[1].success = "False"
       /\ \/ ret[1].api_response = None
          \/ "status_code" \notin DOMAIN ret[1].api_response[1]
       /\ \E i \in 1..Len(ret[1].errors) :
             IsInfix(stimulus.http.message, ret[1].errors[i])

C5_Witness == TransportFailed /\ stimulus.op = "execute_gherkin_scenario"

\* The call looked at is execute_gherkin_scenario and it got a response
ReachedResponse == ScenarioCallDone /\ ret[1].cls = "FormattedTestResult"

\* C6: a result of execute_gherkin_scenario that reached a response has
\* success true exactly when its validation error list is empty and the
\* response status equals the expected status.
C6_SuccessIffClean ==
    ReachedResponse
    => LET r == locals[1].result
           clean == /\ r.errors = <<>>
                    /\ r.api_response[1].status_code
                          = locals[1].directives.expected_status
       IN  /\ (r.success = "True") <=> clean
           /\ (ret[1].status = "passed") <=> clean
           /\ r.success \in {"True", "False"}

\* The status matched and another rule of the scenario failed
C6_Witness ==
    /\ ReachedResponse
    /\ locals[1].result.errors # <<>>
    /\ stimulus.http.status_code = locals[1].directives.expected_status

\* The rules a response violates, as the scenario text states them
StatusViolated ==
    stimulus.http.status_code # locals[1].directives.expected_status

AssertsArray(line) ==
    Contains(Lower(line), "should be a json array")
    \/ Contains(Lower(line), "should be an array")

ArrayViolated ==
    /\ \E i \in 1..Len(LinesOf(stimulus.gherkin_text)) :
          AssertsArray(LinesOf(stimulus.gherkin_text)[i])
    /\ response_data_of(stimulus.http.body).t # "list"

\* The content literals asserted by the text that the body does not contain
AbsentLiterals ==
    {content_match(LinesOf(stimulus.gherkin_text)[i])[1] :
        i \in {k \in 1..Len(LinesOf(stimulus.gherkin_text)) :
                 /\ content_match(LinesOf(stimulus.gherkin_text)[k]) # None
                 /\ ~IsInfix(content_match(LinesOf(stimulus.gherkin_text)[k])[1],
                             Dumps(response_data_of(stimulus.http.body)))}}

InErrors(e) ==
    \E i \in 1..Len(ret[1].validation_errors) : ret[1].validation_errors[i] = e

\* C7: validation does not stop at the first failure: the error list holds
\* a failure for every rule the response violates.
C7_EveryViolationReported ==
    ReachedResponse
    => /\ StatusViolated =>
             InErrors(StatusError(locals[1].directives.expected_status,
                                  stimulus.http.status_code))
       /\ ArrayViolated => InErrors(ArrayError)
       /\ \A lit \in AbsentLiterals : InErrors(ContentError(lit))
       /\ locals[1].result.errors = ret[1].validation_errors

\* A response that violates a status, an array and a content rule at once
C7_Witness ==
    /\ ReachedResponse
    /\ StatusViolated
    /\ ArrayViolated
    /\ AbsentLiterals # {}
    /\ Len(ret[1].validation_errors) >= 3

\* C8: every TestResult whose success is not true carries at least one error
\* string, in the log and as returned by either operation.
C8_FailureExplained ==
    /\ \A i \in 1..Len(test_results) :
          test_results[i].success # "True" => test_results[i].errors # <<>>
    /\ \A p \in Tasks :
          (ret[p].cls = "TestResult" /\ ret[p].success # "True")
             => ret[p].errors # <<>>

\* C9: round trip.  For every scenario with non-empty given, when and then
\* lists, decoding its Gherkin text gives back the same feature, the same
\* scenario name and the same three step lists.
C9_RoundTrip ==
    (/\ codec.pc \in {"decoded", "reencoded"}
     /\ codec.scenario.given # <<>>
     /\ codec.scenario.when # <<>>
     /\ codec.scenario.then # <<>>)
    => codec.decoded = codec.scenario

\* C10: idempotence.  For every text the encoder produced for some scenario,
\* decoding it and encoding the result gives the same text.
C10_Idempotent ==
    codec.pc = "reencoded" => codec.reencoded = codec.text

\* The keywords the decoder classifies a trimmed line by
Keywords == {"Feature:", "Scenario:", "Given", "When", "Then", "And"}

\* A line that, once trimmed, starts with none of the keywords
Unrecognised(raw) == Strip(raw) = <<>> \/ Strip(raw)[1] \notin Keywords

\* C11: decoding never fails.  In every state of its loop the decoder can
\* take its next step, so it goes on to return a Scenario for every input
\* text (the one parse_gherkin_text gives), and an iteration on a line that
\* starts with none of Feature:, Scenario:, Given, When, Then, And leaves
\* the Scenario built so far and the active section unchanged.
C11_DecodingNeverFails ==
    /\ [](parser.pc \in {"called", "loop"} => ENABLED NextParse)
    /\ [](parser.pc = "returned"
            => parser.scenario = parse_gherkin_text(parser.text))
    /\ [][(parser.pc = "loop" /\ parser.i < Len(parser.lines)
             /\ Unrecognised(parser.lines[parser.i + 1]))
           => (parser'.st = parser.st /\ parser'.pc = "loop")]_vars

\* The decoder has just passed an unrecognised line, with a section active
\* and steps collected, and went on
C11_Witness ==
    /\ parser.pc = "returned"
    /\ \E k \in 2..Len(parser.lines) :
          /\ Unrecognised(parser.lines[k])
          /\ ~Unrecognised(parser.lines[k - 1])
          /\ k < Len(parser.lines)
    /\ parser.st.current_section # "None"
    /\ Len(parser.scenario.given) + Len(parser.scenario.when)
          + Len(parser.scenario.then) >= 2

\* What a path addresses in a body, read as the path syntax defines it: a
\* segment names a field of a mapping and may carry an index into the
\* array that the field holds.  None where a segment names a missing key,
\* meets a value of another type or indexes outside the array.
RECURSIVE Addressed(_, _)
Addressed(value, segments) ==
    IF segments = <<>> THEN Some(value)
    ELSE LET seg == Head(segments)
             present == value.t = "dict"
                        /\ \E i \in 1..Len(value.d) : value.d[i][1] = <<seg[1]>>
             field == value.d[CHOOSE i \in 1..Len(value.d) : value.d[i][1] = <<seg[1]>>][2]
         IN  IF ~present THEN None
             ELSE IF Len(seg) = 1 THEN Addressed(field, Tail(segments))
             ELSE IF /\ field.t = "list"
                     /\ seg[3] \in IntTokens
                     /\ IntOf(seg[3]) < Len(field.items)
             THEN Addressed(field.items[IntOf(seg[3]) + 1], Tail(segments))
             ELSE None

\* The call of parse_and_execute_gherkin has returned and had values extracted
Extracted ==
    /\ stimulus.op = "parse_and_execute_gherkin"
    /\ pc[1] = "done"
    /\ ret[1].cls = "TestResult"
    /\ ret[1].extracted_values # None

\* The value recorded for the k-th key of the request
Recorded(k) ==
    LET d == ret[1].extracted_values[1]
        key == stimulus.api_config.extract_values[1][k][1]
    IN  d[CHOOSE i \in 1..Len(d) : d[i][1] = key][2]

\* What the path of the k-th key of the request addresses in the body
Target(k) ==
    Addressed(response_data_of(stimulus.http.body),
              Split(stimulus.api_config.extract_values[1][k][2], "."))

IsExtractionError(v) == v.t = "str" /\ v.s # <<>> /\ v.s[1] = "Error extracting: "

\* C12: path resolution.  When every segment of the path resolves, the
\* value recorded for the key is the addressed element; when a segment
\* names a missing key, meets a value of the wrong type or indexes outside
\* the sequence, it is an extraction-error string (and the call returned,
\* no exception left _extract_values).
C12_PathResolution ==
    Extracted
    => \A k \in 1..Len(stimulus.api_config.extract_values[1]) :
          IF Target(k) # None
          THEN Recorded(k) = Target(k)[1]
          ELSE IsExtractionError(Recorded(k))

\* C13: partial extraction.  The result has exactly the keys of the
\* request; a key whose path fails holds an error string while every other
\* key holds its resolved value; and with the status as expected and no
\* schema to validate the API test succeeds whatever the extraction gave.
C13_PartialExtraction ==
    Extracted
    => LET request == stimulus.api_config.extract_values[1]
           d == ret[1].extracted_values[1]
       IN  /\ [i \in 1..Len(d) |-> d[i][1]] = [i \in 1..Len(request) |-> request[i][1]]
           /\ \A k \in 1..Len(request) :
                 /\ Target(k) = None => IsExtractionError(Recorded(k))
                 /\ Target(k) # None => Recorded(k) = Target(k)[1]
           /\ stimulus.api_config.expected_response_schema = None
                 => locals[1].api.api_success

\* The literals of the content assertion lines of the text
AssertedLiterals ==
    {content_match(LinesOf(stimulus.gherkin_text)[i])[1] :
        i \in {k \in 1..Len(LinesOf(stimulus.gherkin_text)) :
                 /\ Contains(Lower(LinesOf(stimulus.gherkin_text)[k]), "should contain")
                 /\ content_match(LinesOf(stimulus.gherkin_text)[k]) # None}}

\* L occurs in the serialized body
Occurs(L) == IsInfix(L, Dumps(response_data_of(stimulus.http.body)))

\* extractedValues has the key set to true
SetTrue(key) ==
    \E i \in 1..Len(ret[1].extracted_values) :
        ret[1].extracted_values[i] = <<key, JBool(TRUE)>>

\* C14: for every content assertion (should contain, then a quoted literal
\* L) exactly one outcome is recorded.  Either L occurs in the serialized
\* body, the key contains_<L, blanks as underscores> is true and no error
\* names L; or L does not occur, the error "Response does not contain 'L'"
\* is in the list and the key is not set on behalf of L (it is set only
\* where another asserted literal with the same key does occur).
C14_ContentOutcome ==
    ReachedResponse
    => \A L \in AssertedLiterals :
          IF Occurs(L)
          THEN SetTrue(contains_key(L)) /\ ~InErrors(ContentError(L))
          ELSE /\ InErrors(ContentError(L))
               /\ SetTrue(contains_key(L))
                     => \E M \in AssertedLiterals :
                           M # L /\ Occurs(M) /\ contains_key(M) = contains_key(L)

\* C14 as stated: never both.  Where L does not occur and its error is
\* recorded, the key contains_<L> is not true; where L occurs and the key
\* is true, no error names L.
C14_AsStated ==
    ReachedResponse
    => \A L \in AssertedLiterals :
          IF Occurs(L)
          THEN SetTrue(contains_key(L)) /\ ~InErrors(ContentError(L))
          ELSE InErrors(ContentError(L)) /\ ~SetTrue(contains_key(L))

\* One text asserts a literal that occurs and one that does not
C14_Witness ==
    /\ ReachedResponse
    /\ \E L \in AssertedLiterals : Occurs(L) /\ SetTrue(contains_key(L))
    /\ \E L \in AssertedLiterals :
          ~Occurs(L) /\ InErrors(ContentError(L)) /\ ~SetTrue(contains_key(L))

\* The text asserts that the response is an array
TextAssertsArray ==
    \E i \in 1..Len(LinesOf(stimulus.gherkin_text)) :
        AssertsArray(LinesOf(stimulus.gherkin_text)[i])

\* The top-level parsed body is a sequence
BodyIsSequence ==
    stimulus.http.body.json # None /\ stimulus.http.body.json[1].t = "list"

\* C15: when the scenario asserts an array, the check passes exactly when
\* the top-level parsed body is a sequence: a mapping, a scalar and the
\* {text: raw} fallback of a body that is not JSON all get "Response is not
\* a JSON array"; without the assertion the error never appears.
C15_ArrayCheck ==
    ReachedResponse
    => /\ TextAssertsArray => (InErrors(ArrayError) <=> ~BodyIsSequence)
       /\ ~TextAssertsArray => ~InErrors(ArrayError)

\* A body that is not JSON failed the array check, with the status as expected
C15_Witness ==
    /\ ReachedResponse
    /\ TextAssertsArray
    /\ stimulus.http.body.json = None
    /\ stimulus.http.status_code = locals[1].directives.expected_status
    /\ InErrors(ArrayError)

\* C16: no scenario failure aborts a batch.  Whatever the text, the
\* configuration and the outcomes of the collaborators, a call that is over
\* has returned a result; none has raised.
C16_NoScenarioAborts ==
    \A p \in Tasks :
        pc[p] = "done" => ret[p].cls \in {"TestResult", "FormattedTestResult"}

\* C17: every started execution of execute_gherkin_scenario eventually
\* terminates with a result (passed, failed or transport error), the HTTP
\* call returning a response or being cut off by its timeout; none stays
\* in flight forever.
C17_Terminates ==
    \A p \in Tasks :
        (pc[p] = "http")
           ~> (pc[p] = "done" /\ ret[p].cls \in {"TestResult", "FormattedTestResult"})

\* An execution that was in flight has ended with a transport error
C17_Witness ==
    \E p \in Tasks :
        /\ pc[p] = "done"
        /\ calls[p] = 1
        /\ ret[p].cls = "TestResult"
        /\ ret[p].errors = << <<"API request failed: ", "Connection refused">> >>

\* The step is a read operation returning something new
Reads(op) == output' # output /\ output'.op = op

\* d holds the fields of the log entry r
HoldsEntry(d, r) ==
    /\ d.scenario_name = r.scenario_name
    /\ d.success = r.success
    /\ d.api_response = r.api_response
    /\ d.ui_validation_result = r.ui_validation_result
    /\ d.extracted_values = r.extracted_values
    /\ d.errors = r.errors

\* C18: the result log is append-only: every operation of the agent leaves
\* the entries already in the log, and their order, unchanged; the read
\* operations get_test_results, generate_test_report and save_test_results
\* leave the whole log unchanged; the export holds one element per log entry,
\* in log order.
C18_AppendOnly ==
    [][/\ Len(test_results') >= Len(test_results)
       /\ SubSeq(test_results', 1, Len(test_results)) = test_results
       /\ \A op \in {"get_test_results", "generate_test_report", "save_test_results"} :
             Reads(op) => test_results' = test_results
       /\ Reads("get_test_results") =>
             /\ Len(output'.value) = Len(test_results)
             /\ \A i \in 1..Len(test_results) :
                   HoldsEntry(output'.value[i], test_results[i])]_vars

\* The export of a log of two entries, the first failed and the second passed
C18_Witness ==
    /\ Len(test_results) = 2
    /\ test_results[1].success = "False"
    /\ test_results[2].success = "True"
    /\ output.op = "get_test_results"
    /\ Len(output.value) = 2
    /\ output.value[1].success = "False"

\* C19: in every report, passed plus failed equals the total number of log
\* entries; the success rate is 0.0 when the log is empty and
\* passed/total*100, to the tenth it is printed with, otherwise.
C19_ReportCounts ==
    [][Reads("generate_test_report") =>
          LET r == output'.report
              total == Len(test_results)
              tenths == 10 * r.success_rate[1] + r.success_rate[2]
              off == tenths * total - 1000 * r.passed_tests
          IN  /\ r.total_tests = total
              /\ r.passed_tests + r.failed_tests = total
              /\ r.passed_tests \in 0..total
              /\ total = 0 => r.success_rate = <<0, 0>>
              /\ total > 0 => 2 * off <= total /\ -2 * off <= total]_vars

\* The report of a log of two entries, one passed and one whose success is
\* None, which counts as failed
C19_Witness ==
    /\ output.op = "generate_test_report"
    /\ output.report.total_tests = 2
    /\ output.report.passed_tests = 1
    /\ output.report.success_rate = <<50, 0>>
    /\ Len(test_results) = 2
    /\ \E i \in 1..2 : test_results[i].success = "None"

\* The item is an object that has the field, and the expected string is the
\* field's string, or denotes the field's number or its boolean
FieldMatches(item, key, expected) ==
    /\ item.t = "dict"
    /\ \E i \in 1..Len(item.d) :
          /\ item.d[i][1] = key
          /\ LET v == item.d[i][2] IN
                \/ v.t = "str" /\ v.s = expected
                \/ v.t = "num" /\ expected \in {<<ToString(v.n)>>, <<ToString(v.n), ".", "0">>}
                \/ v.t = "bool" /\ expected = <<IF v.b THEN "true" ELSE "false">>

\* C20: validate_user_fields on a list response returns true if and only if
\* at least one single element matches every asserted field at once (a
\* numeric field matching an expected string that denotes the same number);
\* assertions satisfied only by different elements, or with any one field
\* wrong, yield false.
C20_OneElementMatchesAll ==
    (fields.pc = "returned" /\ fields.response_data.t = "list") =>
        (fields.result <=>
            \E n \in 1..Len(fields.response_data.items) :
                \A a \in 1..Len(fields.field_assertions) :
                    FieldMatches(fields.response_data.items[n],
                                 fields.field_assertions[a][1],
                                 fields.field_assertions[a][2]))

\* The lines of the text looked at that give an endpoint URL
UrlLines ==
    {i \in 1..Len(LinesOf(stimulus.gherkin_text)) :
        YieldsUrl(LinesOf(stimulus.gherkin_text)[i])}

\* C21: when several lines of a scenario text carry an endpoint/url
\* directive with a quoted value, the URL used for the HTTP call is the quoted
\* value of the first such line; later endpoint lines do not override it.
C21_FirstEndpointWins ==
    (ScenarioCallDone /\ calls[1] = 1 /\ Cardinality(UrlLines) >= 2)
    => locals[1].directives.api_url
          = FirstQuoted(LinesOf(stimulus.gherkin_text)[Min(UrlLines)])

\* The integer that follows the phrase status code should be on a line, or
\* None
StatusAfterPhrase(line) ==
    LET at == {i \in 1..Len(line) : Lower(line)[i] = "status code should be"}
        after == {j \in 1..Len(line) : at # {} /\ j > Min(at) /\ line[j] \in IntTokens}
    IN  IF after = {} THEN None ELSE Some(IntOf(line[Min(after)]))

\* The lines of the text looked at that bear the phrase
StatusLines ==
    {i \in 1..Len(LinesOf(stimulus.gherkin_text)) :
        Contains(Lower(LinesOf(stimulus.gherkin_text)[i]), "status code should be")}

\* C23: the expected status derived from a scenario text is the integer that
\* follows the phrase status code should be on the last line bearing that
\* phrase; digits that appear before the phrase on the line do not set it.
C23_StatusFollowsPhrase ==
    LET last == CHOOSE i \in StatusLines : \A j \in StatusLines : j <= i
        line == LinesOf(stimulus.gherkin_text)[last]
    IN  (ScenarioCallDone /\ StatusLines # {} /\ StatusAfterPhrase(line) # None)
        => locals[1].directives.expected_status = StatusAfterPhrase(line)[1]

\* The methods whose keyword a line holds verbatim
NamedBy(line) ==
    {m \in {"GET", "POST", "PUT", "DELETE"} :
        \E i \in 1..Len(line) :
            line[i] = CASE m = "GET" -> "GET request" [] m = "POST" -> "POST request"
                        [] m = "PUT" -> "PUT request" [] m = "DELETE" -> "DELETE request"}

\* The lines of the text looked at that hold a method keyword
MethodLines ==
    {i \in 1..Len(LinesOf(stimulus.gherkin_text)) :
        NamedBy(LinesOf(stimulus.gherkin_text)[i]) # {}}

\* C22: the HTTP method derived from a scenario text is the one named by the
\* last line that contains one of the verbatim keywords GET request, POST
\* request, PUT request, DELETE request (later lines override earlier ones),
\* and it is always one of GET, POST, PUT, DELETE.
C22_LastMethodWins ==
    ScenarioCallDone
    => /\ locals[1].directives.method \in {"GET", "POST", "PUT", "DELETE"}
       /\ MethodLines # {} =>
             LET last == CHOOSE i \in MethodLines : \A j \in MethodLines : j <= i
             IN  locals[1].directives.method
                    \in NamedBy(LinesOf(stimulus.gherkin_text)[last])

\* A text whose PUT line is followed by a DELETE line was executed with
\* DELETE
C22_Witness ==
    /\ ScenarioCallDone
    /\ calls[1] = 1
    /\ Cardinality(MethodLines) = 2
    /\ \E i \in MethodLines :
          /\ NamedBy(LinesOf(stimulus.gherkin_text)[i]) = {"PUT"}
          /\ i + 1 \in MethodLines
          /\ NamedBy(LinesOf(stimulus.gherkin_text)[i + 1]) = {"DELETE"}
    /\ locals[1].directives.method = "DELETE"

\* The section of the most recent Given, When or Then line among the first
\* i lines, or "None"
RecentSection(lines, i) ==
    LET at == {k \in 1..i : /\ Strip(lines[k]) # <<>>
                            /\ Strip(lines[k])[1] \in {"Given", "When", "Then"}}
        last == CHOOSE k \in at : \A j \in at : j <= k
    IN  IF at = {} THEN "None"
        ELSE CASE Strip(lines[last])[1] = "Given" -> "given"
               [] Strip(lines[last])[1] = "When" -> "when"
               [] Strip(lines[last])[1] = "Then" -> "then"

\* The decoder is about to read an And line
AtAndLine ==
    /\ parser.pc = "loop"
    /\ parser.i < Len(parser.lines)
    /\ Strip(parser.lines[parser.i + 1]) # <<>>
    /\ Strip(parser.lines[parser.i + 1])[1] = "And"

\* C24: in _parse_gherkin_text an And line is appended, in input order, to
\* whichever of the given/when/then lists belongs to the most recent Given,
\* When or Then line; an And line that occurs before any Given, When or Then
\* line is dropped and changes no list.
C24_AndFollowsSection ==
    [][AtAndLine =>
          LET section == RecentSection(parser.lines, parser.i)
              step == Strip(Tail(Strip(parser.lines[parser.i + 1])))
              grown(list) == IF section = list THEN Append(parser.st[list], step)
                             ELSE parser.st[list]
          IN  /\ parser'.st.given = grown("given")
              /\ parser'.st.when = grown("when")
              /\ parser'.st.then = grown("then")
              /\ parser'.st.feature = parser.st.feature
              /\ parser'.st.scenario = parser.st.scenario]_vars

\* A When line followed by two different And lines gave a when list of three
\* steps in the order of the lines
C24_Witness ==
    LET first(k) == IF Strip(parser.lines[k]) = <<>> THEN "" ELSE Strip(parser.lines[k])[1]
    IN  /\ parser.pc = "returned"
        /\ Len(parser.lines) = 3
        /\ first(1) = "When"
        /\ first(2) = "And"
        /\ first(3) = "And"
        /\ parser.lines[2] # parser.lines[3]
        /\ parser.scenario.when
              = <<Strip(Tail(parser.lines[1])), Strip(Tail(parser.lines[2])),
                  Strip(Tail(parser.lines[3]))>>
        /\ parser.scenario.given = <<>>

\* The place of an error in the order of the rules: status, array, content
RuleOf(e) ==
    IF e = ArrayError THEN 2
    ELSE IF e[1] = "Expected status " THEN 1
    ELSE 3

\* C25: the validation error list of an execution has a fixed shape and
\* order: first at most one status error "Expected status X, got Y", then at
\* most one "Response is not a JSON array", then one "Response does not
\* contain ..." per absent literal; the array error never follows a content
\* error and never appears twice.
C25_ErrorOrder ==
    ReachedResponse
    => LET e == ret[1].validation_errors IN
       /\ \A i, j \in 1..Len(e) : i < j => RuleOf(e[i]) <= RuleOf(e[j])
       /\ Cardinality({i \in 1..Len(e) : RuleOf(e[i]) = 1}) <= 1
       /\ Cardinality({i \in 1..Len(e) : RuleOf(e[i]) = 2}) <= 1
       /\ \A i \in 1..Len(e) :
             /\ RuleOf(e[i]) = 1 =>
                   e[i] = StatusError(locals[1].directives.expected_status,
                                      stimulus.http.status_code)
             /\ RuleOf(e[i]) = 3 => \E L \in AbsentLiterals : e[i] = ContentError(L)
       /\ \A L \in AbsentLiterals : InErrors(ContentError(L))

\* The scenario of the text has no When step and no Then step
NoWhenNoThen(gherkin_text) ==
    /\ parse_gherkin_text(gherkin_text).when = <<>>
    /\ parse_gherkin_text(gherkin_text).then = <<>>

\* C26: a scenario whose when and then step lists are both empty is
\* malformed and its execution is refused: no HTTP call is made for it, even
\* when it names an endpoint.
C26_MalformedRefused ==
    (pc[1] # "idle" /\ NoWhenNoThen(stimulus.gherkin_text)) => calls[1] = 0

\* C27: the scenario name is non-empty after every parse: the scenario that
\* _parse_gherkin_text returns and the scenario_name of every TestResult are
\* never the empty string, whatever the input text (a text without a
\* Scenario: line and a Scenario: line without a name included).
C27_NameNonEmpty ==
    /\ \A i \in 1..Len(test_results) : test_results[i].scenario_name # <<>>
    /\ (stimulus.op = "parse_and_execute_gherkin" /\ pc[1] # "idle")
          => parse_gherkin_text(stimulus.gherkin_text).scenario # <<>>

\* parse_and_execute_gherkin has returned and its HTTP exchange completed
ExchangeCompleted ==
    /\ stimulus.op = "parse_and_execute_gherkin"
    /\ pc[1] = "done"
    /\ stimulus.http.kind = "response"

\* The schema check of execute_api_test did not fail
SchemaPassed ==
    \/ "error" \notin DOMAIN locals[1].api.api_response
    \/ locals[1].api.api_response.error
          = StatusError(stimulus.api_config.expected_status, stimulus.http.status_code)

\* C28: every completed HTTP exchange yields a captured response with status,
\* headers and the parsed body (the JSON value, or the raw text as fallback),
\* also when the status is 4xx/5xx or differs from the expected status:
\* execute_api_test does not itself evaluate the status, and the extraction
\* of the configured values still runs on such a response.
C28_ResponseCaptured ==
    /\ (ExchangeCompleted /\ SchemaPassed)
         => LET api == locals[1].api IN
            /\ {"status_code", "headers", "body"} \subseteq DOMAIN api.api_response
            /\ api.api_response.status_code = stimulus.http.status_code
            /\ api.api_response.headers = stimulus.http.headers
            /\ api.api_response.body = response_data_of(stimulus.http.body)
            /\ "error" \notin DOMAIN api.api_response
            /\ api.extracted_values = api_test_extracted(stimulus.api_config, stimulus.http)
    /\ ReachedResponse
         => LET captured == locals[1].result.api_response[1] IN
            /\ {"status_code", "headers", "data"} \subseteq DOMAIN captured
            /\ captured.status_code = stimulus.http.status_code
            /\ captured.data = response_data_of(stimulus.http.body)

\* execute_gherkin_scenario has returned without reaching a response: the
\* endpoint was missing or the transport failed
EndedWithoutResponse ==
    /\ ScenarioCallDone
    /\ \/ NoEndpointLine(stimulus.gherkin_text)
       \/ stimulus.http.kind = "transport"

\* C29: execute_gherkin_scenario returns a record with the same fields
\* (status, message, validation errors, status code, endpoint) on every path,
\* so that for a missing endpoint or a transport failure the execute handler
\* of the API testing tab shows the failed status with the scenario's own
\* error text and not a generic execution error.
C29_SameFieldsEveryPath ==
    /\ ScenarioCallDone
         => {"status", "message", "validation_errors", "status_code", "api_endpoint"}
               \subseteq DOMAIN ret[1]
    /\ EndedWithoutResponse
         => /\ execute_test_handler(ret[1])[1] = "Test FAILED: "
            /\ IsInfix(locals[1].result.errors[1], execute_test_handler(ret[1]))

\* C30: execute_api_test leaves the caller's APITestConfig unchanged: after
\* the call, with or without bearer or basic authentication, config.headers
\* and every other field of the config equal their values before the call,
\* so that running the same config twice sends the same request.
C30_ConfigUnchanged ==
    (stimulus.op = "execute_api_test" /\ calls[1] > 0)
    => /\ locals[1].config = stimulus.config
       /\ \A i \in 1..Len(locals[1].sent) : locals[1].sent[i] = locals[1].sent[1]

====
